---- MODULE Spec2Model ----
(***************************************************************************)
(* Paper-to-Podcast: the job orchestrator of routers/generate.py (the      *)
(* in-memory job store, start_generation, get_status and the background    *)
(* pipeline _run_pipeline, one step per statement), together with the      *)
(* script assembly of services/script_generator.py, the synthesis of       *)
(* services/tts_service.py and the mixing of services/audio_mixer.py as    *)
(* far as the pipeline depends on them.                                    *)
(*                                                                         *)
(* Conventions.                                                            *)
(*  - Optional[T] is a tuple: <<>> is None, <<x>> is a present value.       *)
(*  - A text is represented by its word count len(text.split()); a text    *)
(*    is empty after strip() exactly when its word count is 0.             *)
(*  - An audio segment is represented by its length in milliseconds.       *)
(*  - Times in seconds are fixed-point numbers with three decimals: the    *)
(*    integer v stands for v/1000 s (every time the code computes is a     *)
(*    whole number of milliseconds divided by 1000).                       *)
(*  - Indices into the dialogue are 0-based as in the code; the TLA+       *)
(*    sequence holding the dialogue is 1-based.                            *)
(*  - The server is one asyncio event loop: a coroutine runs without       *)
(*    interruption from one suspension point (an await that really waits)  *)
(*    to the next, so a request handler or another task only runs while    *)
(*    every pipeline run is suspended or finished.                         *)
(***************************************************************************)
EXTENDS Integers, Sequences, FiniteSets, TLC

VARIABLES
    pdf_files,      \* job ids whose <job_id>.pdf exists in settings.upload_dir
    _JOB_STORE,     \* job id -> JobStatusResponse
    tasks,          \* job id -> its background tasks that have not ended, oldest first,
                    \* each with its position and locals
    started,        \* how many background tasks were added so far
    reply,          \* the response a request handler has just returned
    settings,       \* which credentials are configured
    asm,            \* the services on their own (specification SpecAssembly)
    ask,            \* one call of _ask, attempt by attempt (specification SpecAsk)
    _USER_SCORE     \* routers/podcast.py: job id -> points earned in quizzes

vars == <<pdf_files, _JOB_STORE, tasks, started, reply, settings, asm, ask, _USER_SCORE>>

-----------------------------------------------------------------------------
(* Bounds of the model *)

MaxRuns == 2                \* pipeline runs started in one behaviour
MaxOutline == 1             \* chapters in one provider outline response
MaxQuiz == 2                \* questions of a stored quiz
MaxAnswers == 3             \* answers of one quiz submission
MaxScore == 3               \* points a job's quizzes earn in one behaviour

JobIds == {"j1", "j2"}

-----------------------------------------------------------------------------
(* models/schemas.py *)

PENDING == "pending"
PARSING == "parsing"
SCRIPTING == "scripting"
SYNTHESISING == "synthesising"
MIXING == "mixing"
DONE == "done"
ERROR == "error"

JobStatus == {PENDING, PARSING, SCRIPTING, SYNTHESISING, MIXING, DONE, ERROR}

None == <<>>
Some(x) == <<x>>

JobStatusResponse(job_id, status, progress_pct, message, result, script) ==
    [job_id |-> job_id, status |-> status, progress_pct |-> progress_pct,
     message |-> message, result |-> result, script |-> script]

Chapter(id, title, estimated_duration_sec, line_start, line_end) ==
    [id |-> id, title |-> title, estimated_duration_sec |-> estimated_duration_sec,
     line_start |-> line_start, line_end |-> line_end]

DialogueLine(host, text, chapter_id) ==
    [host |-> host, text |-> text, chapter_id |-> chapter_id]

TimestampedChapter(id, title, start_sec, end_sec) ==
    [id |-> id, title |-> title, start_sec |-> start_sec, end_sec |-> end_sec]

PodcastAudio(job_id, duration_sec, chapters) ==
    [job_id |-> job_id, audio_url |-> <<"/api/podcast/", job_id, "/audio">>,
     vtt_url |-> <<"/api/podcast/", job_id, "/captions">>,
     duration_sec |-> duration_sec, chapters |-> chapters]

QuizQuestion(correct_index) == [correct_index |-> correct_index]

PodcastScript(job_id, total_estimated_duration_sec, chapters, dialogue, quiz_questions) ==
    [job_id |-> job_id, total_estimated_duration_sec |-> total_estimated_duration_sec,
     chapters |-> chapters, dialogue |-> dialogue, quiz_questions |-> quiz_questions]

-----------------------------------------------------------------------------
(* Arithmetic helpers *)

Max(a, b) == IF a >= b THEN a ELSE b
Min(a, b) == IF a <= b THEN a ELSE b

\* int(word_count / 2.5): the quotient truncated, for word_count >= 0
SecsOfWords(word_count) == (2 * word_count) \div 5

\* int(x) of a non-negative time in seconds: whole seconds
IntSec(v) == v \div 1000

\* round(x, 2) of a time in seconds: the nearest hundredth. At an exact decimal
\* tie the result depends on the binary double nearest to x, which lies on
\* either side, so both neighbours are possible results.
Round2(v) ==
    LET lo == (v \div 10) * 10
        r  == v % 10
    IN  IF r < 5 THEN {lo}
        ELSE IF r > 5 THEN {lo + 10}
        ELSE {lo, lo + 10}

-----------------------------------------------------------------------------
(* services/script_generator.py: what the text provider may answer *)

\* A provider text either parses as JSON (parses = TRUE, value = the parsed
\* value) or does not.
Unparseable == [parses |-> FALSE, value |-> [type |-> "none"]]
Json(v) == [parses |-> TRUE, value |-> v]

JsonObject(chapters) == [type |-> "object", chapters |-> chapters]
JsonList(items) == [type |-> "list", items |-> items]
JsonNull == [type |-> "null"]
JsonNumber == [type |-> "number"]

\* An object whose "chapters" value is no list: null, a number, a string, a
\* dict ("empty string" and "empty dict" have nothing to iterate over)
JsonObjectOf(chapters_kind) == [type |-> "object", chapters_kind |-> chapters_kind]

\* An element of a JSON list that is no object, and the test isinstance(x, dict)
NotAnObject == [scalar |-> 1]
IsDict(x) == "scalar" \notin DOMAIN x

\* A chapter of a provider outline: the id is whatever the provider wrote.
ProviderChapters == {[id |-> 7, title |-> "Topic"], [id |-> 1, title |-> "Method"]}

RECURSIVE SeqsUpTo(_, _)
SeqsUpTo(S, n) ==
    IF n = 0 THEN {<<>>}
    ELSE LET shorter == SeqsUpTo(S, n - 1)
         IN  shorter \cup {Append(q, x) : q \in {t \in shorter : Len(t) = n - 1}, x \in S}

OutlineResponses ==
    {Unparseable} \cup {Json(JsonObject(c)) : c \in SeqsUpTo(ProviderChapters, MaxOutline)}
    \cup {Json(JsonList(<<>>)), Json(JsonNull), Json(JsonNumber)}
    \cup {Json(JsonObjectOf(k)) : k \in {"null", "number", "string", "dict", "empty dict"}}
    \cup {Json(JsonObject(<<NotAnObject>>))}

\* An entry of a provider dialogue array: a dict with "host" and "text", or
\* anything else (ok = FALSE).
Entry(host, text) == [ok |-> TRUE, host |-> host, text |-> text]
BadEntry == [ok |-> FALSE, host |-> "", text |-> 0]

DialogueResponses ==
    { Unparseable,
      Json(JsonObject(<<>>)),
      Json(JsonList(<<>>)),
      Json(JsonList(<<Entry("A", 3)>>)),
      Json(JsonList(<<Entry("a", 4), BadEntry, Entry("B", 0)>>)),
      Json(JsonList(<<Entry("Host", 1), Entry("b", 7)>>)) }

\* A study-materials answer: an object with a "quiz" array. An entry of the
\* array makes a QuizQuestion (ok = TRUE) or is skipped.
JsonStudy(quiz) == [type |-> "object", quiz |-> quiz]
QuizEntry(correct_index) == [ok |-> TRUE, correct_index |-> correct_index]
BadQuizEntry == [ok |-> FALSE, correct_index |-> 0]

\* An object whose "quiz" value is no list: null, a number, a string, a dict
JsonStudyOf(quiz_kind) == [type |-> "object", quiz_kind |-> quiz_kind]

StudyResponses ==
    { Unparseable,
      Json(JsonObject(<<>>)),
      Json(JsonStudy(<<QuizEntry(1)>>)),
      Json(JsonStudy(<<QuizEntry(0), BadQuizEntry, QuizEntry(3)>>)),
      Json(JsonStudyOf("null")),
      Json(JsonStudyOf("number")),
      Json(JsonStudyOf("string")) }

\* The answers the orchestrator specification draws from
PipelineStudyResponses == { Json(JsonStudy(<<QuizEntry(1)>>)) }

PipelineOutlineResponses ==
    {Unparseable} \cup
    {Json(JsonObject([i \in 1..n |-> [id |-> 7, title |-> "Topic"]])) : n \in 0..MaxOutline}

PipelineDialogueResponses ==
    { Json(JsonObject(<<>>)),
      Json(JsonList(<<Entry("A", 3)>>)) }

-----------------------------------------------------------------------------
(* services/script_generator.py *)

_safe_json(raw, default) == IF raw.parses THEN raw.value ELSE default

\* str(x).upper() on the host strings of the model
Upper(h) == CASE h = "a" -> "A"
              [] h = "b" -> "B"
              [] h = "Host" -> "HOST"
              [] OTHER -> h

FallbackChapters ==
    << [id |-> 1, title |-> "Introduction"],
       [id |-> 2, title |-> "Core Concepts"],
       [id |-> 3, title |-> "Key Takeaways"] >>

\* lines 165-169: what _generate_chapters raises on the answer, None when it
\* returns. data.get fails on what is no dict, enumerate on what cannot be
\* iterated, ch["id"] = i + 1 on an element that is no dict.
_generate_chapters_error(raw) ==
    LET data == _safe_json(raw, JsonObject(<<>>))
    IN  IF data.type # "object" THEN Some("AttributeError")
        ELSE IF "chapters_kind" \in DOMAIN data
             THEN IF data.chapters_kind \in {"empty string", "empty dict"}
                  THEN None ELSE Some("TypeError")
        ELSE IF \E i \in 1..Len(data.chapters) : ~IsDict(data.chapters[i])
             THEN Some("TypeError")
        ELSE None

\* line 169: ch["id"] = i + 1 sets the key, whether the provider wrote it or not
SetId(ch, id) == [k \in DOMAIN ch \cup {"id"} |-> IF k = "id" THEN id ELSE ch[k]]

\* Mutant of lines 171-177: no fallback chapters
_generate_chapters_no_fallback(raw) ==
    LET data     == _safe_json(raw, JsonObject(<<>>))
        chapters == IF "chapters" \in DOMAIN data THEN data.chapters ELSE <<>>
    IN  [i \in 1..Len(chapters) |-> SetId(chapters[i], i)]

\* Mutant of line 169: the ids are numbered as enumerate counts, from 0
_generate_chapters_from_zero(raw) ==
    LET data     == _safe_json(raw, JsonObject(<<>>))
        chapters == IF "chapters" \in DOMAIN data THEN data.chapters ELSE <<>>
        numbered == [i \in 1..Len(chapters) |-> SetId(chapters[i], i - 1)]
    IN  IF numbered = <<>> THEN FallbackChapters ELSE numbered

\* lines 164-179: the chapters returned, when nothing is raised
_generate_chapters(raw) ==
    LET data     == _safe_json(raw, JsonObject(<<>>))
        chapters == IF "chapters" \in DOMAIN data THEN data.chapters ELSE <<>>
        numbered == [i \in 1..Len(chapters) |-> SetId(chapters[i], i)]
    IN  IF numbered = <<>> THEN FallbackChapters ELSE numbered

\* The lines accepted from one chapter's response, tagged with the chapter id
RECURSIVE AcceptedLines(_, _)
AcceptedLines(items, cid) ==
    IF items = <<>> THEN <<>>
    ELSE LET line == Head(items)
             rest == AcceptedLines(Tail(items), cid)
         IN  IF line.ok
             THEN <<DialogueLine(Upper(line.host), line.text, cid)>> \o rest
             ELSE rest

\* Mutant of line 231: every line is tagged with the id of the first chapter
ChapterLines_first_chapter(chapter, raw) ==
    LET parsed == _safe_json(raw, JsonList(<<>>))
        lines  == IF parsed.type = "list" THEN parsed.items ELSE <<>>
    IN  AcceptedLines(lines, 1)

ChapterLines(chapter, raw) ==
    LET parsed == _safe_json(raw, JsonList(<<>>))
        lines  == IF parsed.type = "list" THEN parsed.items ELSE <<>>
    IN  AcceptedLines(lines, chapter.id)

\* raws[i] is the provider's answer to the request for chapter i
RECURSIVE DialogueFrom(_, _, _)
DialogueFrom(chapters, raws, i) ==
    IF i > Len(chapters) THEN <<>>
    ELSE ChapterLines(chapters[i], raws[i]) \o DialogueFrom(chapters, raws, i + 1)

_generate_dialogue(chapters, raws) == DialogueFrom(chapters, raws, 1)

\* next((j for j, l in enumerate(lines) if l.chapter_id == cid), default)
FirstLineOf(lines, cid, default) ==
    LET hits == {j \in 1..Len(lines) : lines[j].chapter_id = cid}
    IN  IF hits = {} THEN default
        ELSE (CHOOSE j \in hits : \A k \in hits : j <= k) - 1

\* sum(len(lines[j].text.split()) for j in range(a, b))
RECURSIVE WordsInRange(_, _, _)
WordsInRange(lines, a, b) ==
    IF a >= b THEN 0 ELSE lines[a + 1].text + WordsInRange(lines, a + 1, b)

BuildChapter(chapters_data, lines, i) ==
    LET ch         == chapters_data[i]
        cid        == ch.id
        start_idx  == FirstLineOf(lines, cid, 0)
        has_next   == i + 1 <= Len(chapters_data) /\ chapters_data[i + 1].id # 0
        end_idx    == IF has_next
                      THEN FirstLineOf(lines, chapters_data[i + 1].id, Len(lines)) - 1
                      ELSE Len(lines) - 1
        word_count == WordsInRange(lines, start_idx, Min(end_idx + 1, Len(lines)))
    IN  Chapter(cid, ch.title, SecsOfWords(word_count), start_idx, Max(end_idx, start_idx))

_build_chapters(chapters_data, lines) ==
    [i \in 1..Len(chapters_data) |-> BuildChapter(chapters_data, lines, i)]

TotalWords(lines) == WordsInRange(lines, 0, Len(lines))

\* The questions made of the entries of raw_quiz, a bad entry skipped
RECURSIVE QuestionsFrom(_)
QuestionsFrom(raw_quiz) ==
    IF raw_quiz = <<>> THEN <<>>
    ELSE LET q    == Head(raw_quiz)
             rest == QuestionsFrom(Tail(raw_quiz))
         IN  IF q.ok THEN <<QuizQuestion(q.correct_index)>> \o rest ELSE rest

\* lines 271-279: what _generate_study_materials raises on the answer, None
\* when it returns. data.get fails on what is no dict, the loop on a "quiz"
\* value that cannot be iterated; the entries of a string or of a dict are
\* skipped one by one.
_generate_study_materials_error(raw) ==
    LET data == _safe_json(raw, JsonStudy(<<>>))
    IN  IF data.type # "object" THEN Some("AttributeError")
        ELSE IF "quiz_kind" \in DOMAIN data /\ data.quiz_kind \in {"null", "number"}
             THEN Some("TypeError")
        ELSE None

\* The quiz questions _generate_study_materials returns, when nothing is raised
_generate_study_materials(raw) ==
    LET data     == _safe_json(raw, JsonStudy(<<>>))
        raw_quiz == IF "quiz" \in DOMAIN data THEN data.quiz ELSE <<>>
    IN  QuestionsFrom(raw_quiz)

AssembleScript(job_id, chapters_data, all_lines, quiz) ==
    PodcastScript(job_id, SecsOfWords(TotalWords(all_lines)),
                  _build_chapters(chapters_data, all_lines), all_lines, quiz)

generate_script(job_id, outline_raw, dialogue_raws, study_raw) ==
    LET chapters_data == _generate_chapters(outline_raw)
        all_lines     == _generate_dialogue(chapters_data, dialogue_raws)
        quiz          == _generate_study_materials(study_raw)
    IN  AssembleScript(job_id, chapters_data, all_lines, quiz)

-----------------------------------------------------------------------------
(* services/tts_service.py *)

SynthesisedLine(host, text, audio, chapter_id, synthetic) ==
    [host |-> host, text |-> text, audio |-> audio, duration_ms |-> audio,
     chapter_id |-> chapter_id, synthetic |-> synthetic]

\* The audio a synthesis may meet: overshoots, how far the tone loop of
\* _generate_synthetic_speech runs past total_duration (every pass adds
\* 150..450 ms, so an overshoot is some value in 0..449), and provider, the
\* lengths of the audio the speech provider may return.
Audio(overshoots, provider) == [overshoots |-> overshoots, provider |-> provider]

\* The audio the orchestrator specification draws from
PipelineAudio == Audio({3}, {2345})

\* Mutant of line 150: no floor of one second
_generate_synthetic_speech_no_floor(text, env) == {text * 150 + o : o \in env.overshoots}

_generate_synthetic_speech(text, env) ==
    LET total_duration == Max(1000, text * 150)
    IN  {total_duration + o : o \in env.overshoots}

\* The audio script assembly on its own draws from: provider audio shorter
\* than a second
AssemblyAudio == Audio({3}, {400})

\* What _tts_with_retry may return for one line: the (audio, synthetic) pair,
\* followed by the number of http.post calls it made (with a credential, one
\* to three attempts before the one that succeeds)
_tts_with_retry(text, elevenlabs_api_key, env) ==
    IF ~elevenlabs_api_key
    THEN {<<a, TRUE, 0>> : a \in _generate_synthetic_speech(text, env)}
    ELSE {<<a, FALSE, n>> : a \in env.provider, n \in 1..3}

\* The lists synthesise_script may return when no line fails
RECURSIVE synthesise_script(_, _, _)
synthesise_script(dialogue, elevenlabs_api_key, env) ==
    IF dialogue = <<>> THEN {<<>>}
    ELSE LET line == Head(dialogue)
             host == Upper(line.host)
             rest == synthesise_script(Tail(dialogue), elevenlabs_api_key, env)
         IN  IF line.text = 0 THEN rest
             ELSE {<<SynthesisedLine(host, line.text, t[1], line.chapter_id, t[2])>> \o r :
                      t \in _tts_with_retry(line.text, elevenlabs_api_key, env), r \in rest}

TTSFailures ==
    {"ElevenLabs returned 500", "ElevenLabs failed after 3 attempts"}

-----------------------------------------------------------------------------
(* services/audio_mixer.py *)

INTRO_MUSIC_MS == 4000
PAUSE_MS == 600

RECURSIVE SpeechTrackLen(_)
SpeechTrackLen(synthesised) ==
    IF synthesised = <<>> THEN 0
    ELSE Head(synthesised).audio + PAUSE_MS + SpeechTrackLen(Tail(synthesised))

\* len(final_audio): the intro followed by the ducked music overlaid with speech
FinalAudioLen(synthesised) == INTRO_MUSIC_MS + SpeechTrackLen(synthesised)

\* Mutant of line 76: the chapter ends with the speech track, the intro left out
mix_podcast_speech_only(synthesised) ==
    <<TimestampedChapter(0, "Introduction", 0, SpeechTrackLen(synthesised))>>

\* The ts_chapters mix_podcast returns
mix_podcast(synthesised) ==
    <<TimestampedChapter(0, "Introduction", 0, FinalAudioLen(synthesised))>>

MixFailures == {"Couldn't encode mp3"}

\* line 56: the length asked of _load_music
MusicDuration(synthesised) == SpeechTrackLen(synthesised) + 10000

\* settings.background_music stands for audio_assets_dir / "background_music.mp3":
\* None when the file is absent, else the length in ms it decodes to.
\* lines 88-89: "while len(music) < duration_ms: music += music" leaves a music
\* of length 0 at length 0, so the loop is never left
_load_music_loops(asset, duration_ms) ==
    IF asset = None THEN FALSE
    ELSE asset[1] < duration_ms /\ asset[1] + asset[1] = asset[1]

CaptionCue(start_sec, end_sec, host, text) ==
    [start_sec |-> start_sec, end_sec |-> end_sec, host |-> host, text |-> text]

\* Mutant of lines 44-45: the start of a line is recorded after the pause of
\* the line before it is left out of the track
RECURSIVE CuesFrom_no_pause(_, _)
CuesFrom_no_pause(synthesised, start_ms) ==
    IF synthesised = <<>> THEN <<>>
    ELSE LET sl == Head(synthesised)
         IN  <<CaptionCue(start_ms, start_ms + sl.duration_ms, sl.host, sl.text)>>
                \o CuesFrom_no_pause(Tail(synthesised), start_ms + sl.audio)

\* lines 41-52: the cue of every line; start_ms is len(speech_track) when the
\* line is reached
RECURSIVE CuesFrom(_, _)
CuesFrom(synthesised, start_ms) ==
    IF synthesised = <<>> THEN <<>>
    ELSE LET sl == Head(synthesised)
         IN  <<CaptionCue(start_ms, start_ms + sl.duration_ms, sl.host, sl.text)>>
                \o CuesFrom(Tail(synthesised), start_ms + sl.audio + PAUSE_MS)

Cues(synthesised) == CuesFrom(synthesised, 0)

\* _format_time computes the milliseconds it writes as int((s % 1) * 1000) in
\* double arithmetic, which cuts off a fraction that lies just below a whole
\* millisecond. The times t (in ms) a cue of this model can have, t = c + 4000
\* computed as c / 1000.0 + 4.0, for which it writes one millisecond less than
\* t, and those for which it writes t:
FormatTimeShort ==
    {
      5053, 5603, 6606, 6706, 7206, 8209, 8909, 8959, 9290, 9912,
      9962, 10412, 10462, 11415, 11465, 11665, 12065, 12165, 12215, 12235,
      13068, 13168, 13218, 13318, 15180, 15780 }

FormatTimeExact ==
    {
      4000, 4400, 5000, 5003, 5400, 5653, 6000, 6345, 6400, 6656,
      6945, 7000, 7256, 7306, 7400, 8000, 8259, 8309, 8359, 8400,
      8809, 8859, 9000, 9400, 9812, 9862, 9890, 10012, 10512, 10562,
      10612, 11515, 11565, 11615, 12015, 12115, 12265, 12835, 13018, 13118,
      13268, 18125, 18725, 21070 }

\* The time _format_time(seconds) writes, in ms; for a time outside the two
\* tables either outcome
_format_time(seconds) ==
    IF seconds \in FormatTimeShort THEN {seconds - 1}
    ELSE IF seconds \in FormatTimeExact THEN {seconds}
    ELSE {seconds - 1, seconds}

\* The cues _write_vtt writes, numbered from i on
RECURSIVE WrittenCues(_, _, _)
WrittenCues(cues, offset, i) ==
    IF i > Len(cues) THEN {<<>>}
    ELSE {<<[index |-> i, start |-> start, end |-> end,
             host |-> cues[i].host, text |-> cues[i].text]>> \o rest :
             start \in _format_time(cues[i].start_sec + offset),
             end \in _format_time(cues[i].end_sec + offset),
             rest \in WrittenCues(cues, offset, i + 1)}

_write_vtt(cues, offset_ms) == WrittenCues(cues, offset_ms, 1)

-----------------------------------------------------------------------------
(* routers/generate.py: the job store and the request handlers *)

NoReply == [op |-> "none", job_id |-> "", code |-> 0, body |-> None]
Response(op, job_id, code, body) == [op |-> op, job_id |-> job_id, code |-> code, body |-> body]

\* A background task: pc is the line of _run_pipeline it executes next; the
\* other fields are the locals of _run_pipeline (e: the exception caught). A
\* task that has ended is no longer among the tasks.
Run(job_id, pc) ==
    [job_id |-> job_id, pc |-> pc, doc |-> None, script |-> None, synthesised |-> None,
     vtt_path |-> None, ts_chapters |-> None, result |-> None, e |-> None]

\* Mutant: the run yields to the event loop after every statement
Suspended_at_every_statement(run) == run.pc # "L149"

\* Where a run waits for the event loop: before its first statement (the task
\* starts after the response is sent), inside generate_script (provider calls
\* and pacing sleeps) and inside synthesise_script (provider calls and the pause
\* after each line; with no dialogue it returns without waiting).
Suspended(run) ==
    \/ run.pc \in {"L94", "L104"}
    \/ run.pc = "L112" /\ run.script[1].dialogue # <<>>

\* The tasks of the event loop, each named by its job id and its place among
\* that job's tasks
RunRefs == {r \in JobIds \X (1..MaxRuns) : r[2] <= Len(tasks[r[1]])}

Task(r) == tasks[r[1]][r[2]]

LoopFree == \A q \in RunRefs : Suspended(Task(q))

\* Task r may execute its next statement
Scheduled(r) ==
    /\ r \in RunRefs
    /\ \A q \in RunRefs : q # r => Suspended(Task(q))

\* Mutants of line 42: a finished job is started again; a failed job is never
\* started again
AlreadyStarted_restarts_done(job_id) ==
    job_id \in DOMAIN _JOB_STORE /\ _JOB_STORE[job_id].status \notin {ERROR, DONE}

AlreadyStarted_never_restarts(job_id) == job_id \in DOMAIN _JOB_STORE

\* Mutant of line 42: only a finished job counts as started
AlreadyStarted_only_done(job_id) ==
    job_id \in DOMAIN _JOB_STORE /\ _JOB_STORE[job_id].status = DONE

\* line 42: the job is already running or done
AlreadyStarted(job_id) ==
    job_id \in DOMAIN _JOB_STORE /\ _JOB_STORE[job_id].status \notin {ERROR}

\* ingest_pdf: a fresh job id gets its PDF saved (and parsed at once)
ingest_pdf(job_id) ==
    /\ LoopFree
    /\ job_id \notin pdf_files
    /\ pdf_files' = pdf_files \cup {job_id}
    /\ reply' = Response("ingest", job_id, 200, None)
    /\ UNCHANGED <<_JOB_STORE, tasks, started, settings, asm, ask, _USER_SCORE>>

\* Mutant of lines 38-39: the missing document is recorded as a failed job
start_generation_not_found_as_error(job_id) ==
    /\ LoopFree
    /\ job_id \notin pdf_files
    /\ _JOB_STORE' = [k \in DOMAIN _JOB_STORE \cup {job_id} |->
                         IF k = job_id
                         THEN JobStatusResponse(job_id, ERROR, 0, <<"Upload a PDF first.">>, None, None)
                         ELSE _JOB_STORE[k]]
    /\ reply' = Response("start_generation", job_id, 404, None)
    /\ UNCHANGED <<pdf_files, tasks, started, settings, asm, ask, _USER_SCORE>>

\* lines 38-39
start_generation_not_found(job_id) ==
    /\ LoopFree
    /\ job_id \notin pdf_files
    /\ reply' = Response("start_generation", job_id, 404, None)
    /\ UNCHANGED <<pdf_files, _JOB_STORE, tasks, started, settings, asm, ask, _USER_SCORE>>

\* lines 41-43
start_generation_current(job_id) ==
    /\ LoopFree
    /\ job_id \in pdf_files
    /\ AlreadyStarted(job_id)
    /\ reply' = Response("start_generation", job_id, 200, Some(_JOB_STORE[job_id]))
    /\ UNCHANGED <<pdf_files, _JOB_STORE, tasks, started, settings, asm, ask, _USER_SCORE>>

\* lines 45-57
start_generation_new(job_id) ==
    /\ LoopFree
    /\ started < MaxRuns
    /\ job_id \in pdf_files
    /\ ~AlreadyStarted(job_id)
    /\ LET job == JobStatusResponse(job_id, PENDING, 0, <<"Generation queued...">>, None, None)
       IN  /\ _JOB_STORE' = [k \in DOMAIN _JOB_STORE \cup {job_id} |->
                                IF k = job_id THEN job ELSE _JOB_STORE[k]]
           /\ tasks' = [tasks EXCEPT ![job_id] = Append(@, Run(job_id, "L94"))]
           /\ started' = started + 1
           /\ reply' = Response("start_generation", job_id, 200, Some(job))
    /\ UNCHANGED <<pdf_files, settings, asm, ask, _USER_SCORE>>

\* lines 62-63
get_status_not_found(job_id) ==
    /\ LoopFree
    /\ job_id \notin DOMAIN _JOB_STORE
    /\ reply' = Response("get_status", job_id, 404, None)
    /\ UNCHANGED <<pdf_files, _JOB_STORE, tasks, started, settings, asm, ask, _USER_SCORE>>

\* lines 64-73
get_status(job_id) ==
    /\ LoopFree
    /\ job_id \in DOMAIN _JOB_STORE
    /\ LET job == _JOB_STORE[job_id]
       IN  reply' = Response("get_status", job_id, 200,
                        Some(JobStatusResponse(job.job_id, job.status, job.progress_pct,
                                               job.message, job.result, job.script)))
    /\ UNCHANGED <<pdf_files, _JOB_STORE, tasks, started, settings, asm, ask, _USER_SCORE>>

-----------------------------------------------------------------------------
(* routers/generate.py: _run_pipeline, one action per statement *)

\* lines 85-90: the store after update(status, pct, msg)
update(job_id, status, pct, msg) ==
    IF job_id \in DOMAIN _JOB_STORE
    THEN [_JOB_STORE EXCEPT ![job_id].status = status,
                            ![job_id].progress_pct = pct,
                            ![job_id].message = msg]
    ELSE _JOB_STORE

Put(r, run) == tasks' = [tasks EXCEPT ![r[1]][r[2]] = run]

Goto(r, pc) == Put(r, [Task(r) EXCEPT !.pc = pc])

\* An exception raised inside the try block: control passes to line 149
Raise(r, description) == Put(r, [Task(r) EXCEPT !.pc = "L149", !.e = Some(description)])

\* The coroutine returns: the task leaves the event loop
Finish(r) ==
    tasks' = [tasks EXCEPT ![r[1]] = SubSeq(@, 1, r[2] - 1) \o SubSeq(@, r[2] + 1, Len(@))]

\* A pipeline step runs once the handler's response has been sent
Frame == reply' = NoReply /\ UNCHANGED <<pdf_files, started, settings, asm, ask, _USER_SCORE>>

\* Mutant of line 94: the run goes on to parse_pdf with the status left at PENDING
update_parsing_start_skipped(r) ==
    /\ Scheduled(r) /\ Task(r).pc = "L94"
    /\ Goto(r, "L96")
    /\ UNCHANGED _JOB_STORE
    /\ Frame

\* line 94
update_parsing_start(r) ==
    /\ Scheduled(r) /\ Task(r).pc = "L94"
    /\ _JOB_STORE' = update(Task(r).job_id, PARSING, 5, <<"Parsing PDF...">>)
    /\ Goto(r, "L96")
    /\ Frame

Docs == {[total_pages |-> 2, sections |-> 3]}
ParseFailures == {"cannot open broken document"}

\* line 96
parse_pdf_returns(r) ==
    /\ Scheduled(r) /\ Task(r).pc = "L96"
    /\ \E doc \in Docs : Put(r, [Task(r) EXCEPT !.pc = "L97", !.doc = Some(doc)])
    /\ UNCHANGED _JOB_STORE
    /\ Frame

parse_pdf_raises(r) ==
    /\ Scheduled(r) /\ Task(r).pc = "L96"
    /\ \E d \in ParseFailures : Raise(r, d)
    /\ UNCHANGED _JOB_STORE
    /\ Frame

\* line 97
update_parsed(r) ==
    /\ Scheduled(r) /\ Task(r).pc = "L97"
    /\ LET doc == Task(r).doc[1]
       IN  _JOB_STORE' = update(Task(r).job_id, PARSING, 15,
                                <<"Parsed ", ToString(doc.total_pages), " pages, ",
                                  ToString(doc.sections), " sections.">>)
    /\ Goto(r, "L99")
    /\ Frame

NoGoogleKey == "No GOOGLE_API_KEY set in .env file."

\* Mutant of lines 99-100: the run goes on without the credential
check_google_api_key_skipped(r) ==
    /\ Scheduled(r) /\ Task(r).pc = "L99"
    /\ Goto(r, "L103")
    /\ UNCHANGED _JOB_STORE
    /\ Frame

\* lines 99-100
check_google_api_key(r) ==
    /\ Scheduled(r) /\ Task(r).pc = "L99"
    /\ IF settings.google_api_key THEN Goto(r, "L103") ELSE Raise(r, NoGoogleKey)
    /\ UNCHANGED _JOB_STORE
    /\ Frame

\* line 103
update_scripting_start(r) ==
    /\ Scheduled(r) /\ Task(r).pc = "L103"
    /\ _JOB_STORE' = update(Task(r).job_id, SCRIPTING, 20,
                            <<"Generating podcast script with Gemini...">>)
    /\ Goto(r, "L104")
    /\ Frame

\* What _ask raises: a non-rate-limit failure, or the rate limit outlasting the retries
AskFailures ==
    {"Gemini generation failed",
     "Gemini rate limit exceeded after all retries. Please wait 2 minutes and try again."}

\* line 104
generate_script_returns(r) ==
    /\ Scheduled(r) /\ Task(r).pc = "L104"
    /\ \E outline_raw \in PipelineOutlineResponses :
         \E dialogue_raws \in [1..Len(_generate_chapters(outline_raw)) -> PipelineDialogueResponses] :
            \E study_raw \in PipelineStudyResponses :
               Put(r, [Task(r) EXCEPT !.pc = "L107",
                                    !.script = Some(generate_script(Task(r).job_id, outline_raw,
                                                                       dialogue_raws, study_raw))])
    /\ UNCHANGED _JOB_STORE
    /\ Frame

generate_script_raises(r) ==
    /\ Scheduled(r) /\ Task(r).pc = "L104"
    /\ \E d \in AskFailures : Raise(r, d)
    /\ UNCHANGED _JOB_STORE
    /\ Frame

\* line 104, with a provider that answers every call with '{}' or with text
\* that is no JSON
FallbackResponses == {Unparseable, Json(JsonObject(<<>>))}

generate_script_returns_fallback(r) ==
    /\ Scheduled(r) /\ Task(r).pc = "L104"
    /\ \E outline_raw \in FallbackResponses :
         \E dialogue_raws \in [1..Len(_generate_chapters(outline_raw)) -> FallbackResponses] :
            \E study_raw \in FallbackResponses :
               Put(r, [Task(r) EXCEPT !.pc = "L107",
                                    !.script = Some(generate_script(Task(r).job_id, outline_raw,
                                                                       dialogue_raws, study_raw))])
    /\ UNCHANGED _JOB_STORE
    /\ Frame

\* Mutant of line 107: the script is not stored before synthesis
save_script_skipped(r) ==
    /\ Scheduled(r) /\ Task(r).pc = "L107"
    /\ UNCHANGED _JOB_STORE
    /\ Goto(r, "L108")
    /\ Frame

\* line 107: the entry now refers to the run's script object
save_script(r) ==
    /\ Scheduled(r) /\ Task(r).pc = "L107"
    /\ _JOB_STORE' = [_JOB_STORE EXCEPT ![Task(r).job_id].script = Task(r).script]
    /\ Goto(r, "L108")
    /\ Frame

\* line 108
update_script_ready(r) ==
    /\ Scheduled(r) /\ Task(r).pc = "L108"
    /\ LET script == Task(r).script[1]
       IN  _JOB_STORE' = update(Task(r).job_id, SCRIPTING, 50,
                                <<"Script ready: ", ToString(Len(script.dialogue)), " lines, ",
                                  ToString(Len(script.chapters)), " chapters.">>)
    /\ Goto(r, "L111")
    /\ Frame

\* Mutant of line 111: the status jumps over SYNTHESISING
update_synthesising_start_skips(r) ==
    /\ Scheduled(r) /\ Task(r).pc = "L111"
    /\ _JOB_STORE' = update(Task(r).job_id, MIXING, 55,
                            <<"Synthesising voices with ElevenLabs...">>)
    /\ Goto(r, "L112")
    /\ Frame

\* line 111
update_synthesising_start(r) ==
    /\ Scheduled(r) /\ Task(r).pc = "L111"
    /\ _JOB_STORE' = update(Task(r).job_id, SYNTHESISING, 55,
                            <<"Synthesising voices with ElevenLabs...">>)
    /\ Goto(r, "L112")
    /\ Frame

\* line 112
synthesise_script_returns(r) ==
    /\ Scheduled(r) /\ Task(r).pc = "L112"
    /\ \E synthesised \in synthesise_script(Task(r).script[1].dialogue, settings.elevenlabs_api_key,
                                           PipelineAudio) :
         Put(r, [Task(r) EXCEPT !.pc = "L113", !.synthesised = Some(synthesised)])
    /\ UNCHANGED _JOB_STORE
    /\ Frame

\* line 112: a provider failure on some line with text (only with a speech credential)
synthesise_script_raises(r) ==
    /\ Scheduled(r) /\ Task(r).pc = "L112"
    /\ settings.elevenlabs_api_key
    /\ \E i \in 1..Len(Task(r).script[1].dialogue) : Task(r).script[1].dialogue[i].text # 0
    /\ \E d \in TTSFailures : Raise(r, d)
    /\ UNCHANGED _JOB_STORE
    /\ Frame

\* line 113
update_synthesis_complete(r) ==
    /\ Scheduled(r) /\ Task(r).pc = "L113"
    /\ _JOB_STORE' = update(Task(r).job_id, SYNTHESISING, 80,
                            <<"Synthesis complete: ", ToString(Len(Task(r).synthesised[1])),
                              " segments.">>)
    /\ Goto(r, "L116")
    /\ Frame

\* Mutant of line 116: the progress falls back
update_mixing_lower_pct(r) ==
    /\ Scheduled(r) /\ Task(r).pc = "L116"
    /\ _JOB_STORE' = update(Task(r).job_id, MIXING, 75, <<"Mixing final audio...">>)
    /\ Goto(r, "L119")
    /\ Frame

\* line 116
update_mixing(r) ==
    /\ Scheduled(r) /\ Task(r).pc = "L116"
    /\ _JOB_STORE' = update(Task(r).job_id, MIXING, 80, <<"Mixing final audio...">>)
    /\ Goto(r, "L119")
    /\ Frame

\* line 119, when _load_music returns; vtt_path stands for the caption file written, by its cues
mix_podcast_returns(r) ==
    /\ Scheduled(r) /\ Task(r).pc = "L119"
    /\ ~_load_music_loops(settings.background_music, MusicDuration(Task(r).synthesised[1]))
    /\ \E vtt \in _write_vtt(Cues(Task(r).synthesised[1]), INTRO_MUSIC_MS) :
         Put(r, [Task(r) EXCEPT !.pc = "L122",
                              !.vtt_path = Some(vtt),
                              !.ts_chapters = Some(mix_podcast(Task(r).synthesised[1]))])
    /\ UNCHANGED _JOB_STORE
    /\ Frame

\* line 66: the export fails, after _load_music has returned
mix_podcast_raises(r) ==
    /\ Scheduled(r) /\ Task(r).pc = "L119"
    /\ ~_load_music_loops(settings.background_music, MusicDuration(Task(r).synthesised[1]))
    /\ \E d \in MixFailures : Raise(r, d)
    /\ UNCHANGED _JOB_STORE
    /\ Frame

\* sum(ch.end_sec - ch.start_sec for ch in ts_chapters)
RECURSIVE ChaptersDuration(_)
ChaptersDuration(ts_chapters) ==
    IF ts_chapters = <<>> THEN 0
    ELSE (Head(ts_chapters).end_sec - Head(ts_chapters).start_sec)
            + ChaptersDuration(Tail(ts_chapters))

\* Mutant of line 128: the duration is cut to hundredths instead of rounded
ResultDuration_truncated(ts_chapters) == {(ChaptersDuration(ts_chapters) \div 10) * 10}

\* The duration_sec the result is given: round(duration_sec, 2)
ResultDuration(ts_chapters) == Round2(ChaptersDuration(ts_chapters))

\* lines 122-130
build_result(r) ==
    /\ Scheduled(r) /\ Task(r).pc = "L122"
    /\ LET ts_chapters == Task(r).ts_chapters[1]
       IN  \E duration_sec \in ResultDuration(ts_chapters) :
              Put(r, [Task(r) EXCEPT !.pc = "L133",
                          !.result = Some(PodcastAudio(Task(r).job_id, duration_sec, ts_chapters))])
    /\ UNCHANGED _JOB_STORE
    /\ Frame

\* lines 133-142: the chapters script.chapters is assigned
RewrittenChapters(chapters, ts_chapters) ==
    IF ts_chapters # <<>> /\ chapters # <<>>
    THEN [i \in 1..Len(ts_chapters) |->
            LET ch == ts_chapters[i]
            IN  Chapter(ch.id, ch.title, IntSec(ch.end_sec - ch.start_sec),
                        IF i - 1 < Len(chapters) THEN chapters[i].line_start ELSE 0,
                        IF i - 1 < Len(chapters) THEN chapters[i].line_end ELSE 0)]
    ELSE chapters

\* lines 133-142: the assignment changes the script object, which the entry
\* refers to since line 107
rewrite_chapters(r) ==
    /\ Scheduled(r) /\ Task(r).pc = "L133"
    /\ LET script  == Task(r).script[1]
           updated == [script EXCEPT !.chapters =
                          RewrittenChapters(script.chapters, Task(r).ts_chapters[1])]
       IN  /\ Put(r, [Task(r) EXCEPT !.pc = "L144", !.script = Some(updated)])
           /\ _JOB_STORE' = [_JOB_STORE EXCEPT ![Task(r).job_id].script = Some(updated)]
    /\ Frame

\* line 144
save_result(r) ==
    /\ Scheduled(r) /\ Task(r).pc = "L144"
    /\ _JOB_STORE' = [_JOB_STORE EXCEPT ![Task(r).job_id].result = Task(r).result]
    /\ Goto(r, "L145")
    /\ Frame

\* line 145
resave_script(r) ==
    /\ Scheduled(r) /\ Task(r).pc = "L145"
    /\ _JOB_STORE' = [_JOB_STORE EXCEPT ![Task(r).job_id].script = Task(r).script]
    /\ Goto(r, "L146")
    /\ Frame

\* lines 146-147: the last statements of the try block; the task ends
update_done(r) ==
    /\ Scheduled(r) /\ Task(r).pc = "L146"
    /\ _JOB_STORE' = update(Task(r).job_id, DONE, 100, <<"Podcast ready!">>)
    /\ Finish(r)
    /\ Frame

\* Mutants of lines 149-151: the progress is left as it was; the script is dropped
handle_exception_keeps_progress(r) ==
    /\ Scheduled(r) /\ Task(r).pc = "L149"
    /\ _JOB_STORE' = update(Task(r).job_id, ERROR, _JOB_STORE[Task(r).job_id].progress_pct,
                            <<"Error: ", Task(r).e[1]>>)
    /\ Finish(r)
    /\ Frame

handle_exception_drops_script(r) ==
    /\ Scheduled(r) /\ Task(r).pc = "L149"
    /\ _JOB_STORE' = [update(Task(r).job_id, ERROR, 0, <<"Error: ", Task(r).e[1]>>)
                         EXCEPT ![Task(r).job_id].script = None]
    /\ Finish(r)
    /\ Frame

\* Mutant of line 150: the failure of one run marks every job of the store
handle_exception_all_jobs(r) ==
    /\ Scheduled(r) /\ Task(r).pc = "L149"
    /\ _JOB_STORE' = [k \in DOMAIN _JOB_STORE |->
                         [_JOB_STORE[k] EXCEPT !.status = ERROR, !.progress_pct = 0,
                                               !.message = <<"Error: ", Task(r).e[1]>>]]
    /\ Finish(r)
    /\ Frame

\* lines 149-151: the task ends
handle_exception(r) ==
    /\ Scheduled(r) /\ Task(r).pc = "L149"
    /\ _JOB_STORE' = update(Task(r).job_id, ERROR, 0, <<"Error: ", Task(r).e[1]>>)
    /\ Finish(r)
    /\ Frame

-----------------------------------------------------------------------------
(* The orchestrator: requests and pipeline steps under one event loop *)

NoAssembly == [pc |-> "off", chapters_data |-> <<>>, i |-> 0, all_lines |-> <<>>,
               quiz |-> <<>>, total_secs |-> 0, chapters |-> <<>>,
               idx |-> 0, synthesised |-> <<>>, posts |-> 0, e |-> None,
               final_audio |-> 0, ts_chapters |-> <<>>, cues |-> <<>>, vtt |-> <<>>,
               attempt |-> 0, log |-> <<>>, outline |-> None, study |-> None,
               music |-> 0]

\* No call of _ask is followed attempt by attempt
NoAsk == [pc |-> "off", call |-> 0, attempt |-> 0, log |-> <<>>, raws |-> <<>>]

Init ==
    /\ pdf_files = {}
    /\ _JOB_STORE = <<>>
    /\ tasks = [job_id \in JobIds |-> <<>>]
    /\ started = 0
    /\ reply = NoReply
    /\ settings \in [google_api_key : BOOLEAN, elevenlabs_api_key : BOOLEAN,
                    background_music : {None}]
    /\ asm = NoAssembly
    /\ ask = NoAsk
    /\ _USER_SCORE = <<>>

Next ==
    \/ \E job_id \in JobIds : ingest_pdf(job_id)
    \/ \E job_id \in JobIds : start_generation_not_found(job_id)
    \/ \E job_id \in JobIds : start_generation_current(job_id)
    \/ \E job_id \in JobIds : start_generation_new(job_id)
    \/ \E job_id \in JobIds : get_status_not_found(job_id)
    \/ \E job_id \in JobIds : get_status(job_id)
    \/ \E r \in JobIds \X (1..MaxRuns) : update_parsing_start(r)
    \/ \E r \in JobIds \X (1..MaxRuns) : parse_pdf_returns(r)
    \/ \E r \in JobIds \X (1..MaxRuns) : parse_pdf_raises(r)
    \/ \E r \in JobIds \X (1..MaxRuns) : update_parsed(r)
    \/ \E r \in JobIds \X (1..MaxRuns) : check_google_api_key(r)
    \/ \E r \in JobIds \X (1..MaxRuns) : update_scripting_start(r)
    \/ \E r \in JobIds \X (1..MaxRuns) : generate_script_returns(r)
    \/ \E r \in JobIds \X (1..MaxRuns) : generate_script_raises(r)
    \/ \E r \in JobIds \X (1..MaxRuns) : save_script(r)
    \/ \E r \in JobIds \X (1..MaxRuns) : update_script_ready(r)
    \/ \E r \in JobIds \X (1..MaxRuns) : update_synthesising_start(r)
    \/ \E r \in JobIds \X (1..MaxRuns) : synthesise_script_returns(r)
    \/ \E r \in JobIds \X (1..MaxRuns) : synthesise_script_raises(r)
    \/ \E r \in JobIds \X (1..MaxRuns) : update_synthesis_complete(r)
    \/ \E r \in JobIds \X (1..MaxRuns) : update_mixing(r)
    \/ \E r \in JobIds \X (1..MaxRuns) : mix_podcast_returns(r)
    \/ \E r \in JobIds \X (1..MaxRuns) : mix_podcast_raises(r)
    \/ \E r \in JobIds \X (1..MaxRuns) : build_result(r)
    \/ \E r \in JobIds \X (1..MaxRuns) : rewrite_chapters(r)
    \/ \E r \in JobIds \X (1..MaxRuns) : save_result(r)
    \/ \E r \in JobIds \X (1..MaxRuns) : resave_script(r)
    \/ \E r \in JobIds \X (1..MaxRuns) : update_done(r)
    \/ \E r \in JobIds \X (1..MaxRuns) : handle_exception(r)

Spec == Init /\ [][Next]_vars

-----------------------------------------------------------------------------
(* The orchestrator with a text credential, no speech credential and a text *)
(* provider that answers every call with '{}' or with text that is no JSON; *)
(* the document parses and the mix can be written. The event loop runs      *)
(* every task it holds: a step of some run is taken if one stays possible.  *)

InitFallback ==
    /\ pdf_files = {}
    /\ _JOB_STORE = <<>>
    /\ tasks = [job_id \in JobIds |-> <<>>]
    /\ started = 0
    /\ reply = NoReply
    /\ settings = [google_api_key |-> TRUE, elevenlabs_api_key |-> FALSE,
                   background_music |-> None]
    /\ asm = NoAssembly
    /\ ask = NoAsk
    /\ _USER_SCORE = <<>>

StepFallback(r) ==
    \/ update_parsing_start(r)
    \/ parse_pdf_returns(r)
    \/ update_parsed(r)
    \/ check_google_api_key(r)
    \/ update_scripting_start(r)
    \/ generate_script_returns_fallback(r)
    \/ save_script(r)
    \/ update_script_ready(r)
    \/ update_synthesising_start(r)
    \/ synthesise_script_returns(r)
    \/ update_synthesis_complete(r)
    \/ update_mixing(r)
    \/ mix_podcast_returns(r)
    \/ build_result(r)
    \/ rewrite_chapters(r)
    \/ save_result(r)
    \/ resave_script(r)
    \/ update_done(r)

RunFallback == \E r \in JobIds \X (1..MaxRuns) : StepFallback(r)

NextFallback ==
    \/ \E job_id \in JobIds : ingest_pdf(job_id)
    \/ \E job_id \in JobIds : start_generation_not_found(job_id)
    \/ \E job_id \in JobIds : start_generation_current(job_id)
    \/ \E job_id \in JobIds : start_generation_new(job_id)
    \/ \E job_id \in JobIds : get_status_not_found(job_id)
    \/ \E job_id \in JobIds : get_status(job_id)
    \/ RunFallback

SpecFallback == InitFallback /\ [][NextFallback]_vars /\ WF_vars(RunFallback)

-----------------------------------------------------------------------------
(* The orchestrator with every credential setting and every background      *)
(* asset. Each call of the text provider returns ('{}' or text that is no   *)
(* JSON) or fails; the script then has no dialogue, so synthesise_script    *)
(* returns without a call of the speech provider. The event loop runs every *)
(* task it holds: a step of some run is taken if one stays possible.        *)

\* audio_assets_dir / "background_music.mp3": absent, decoding to no audio,
\* shorter than any mix, longer than any mix
MusicAssets == {None, Some(0), Some(3000), Some(60000)}

InitFair ==
    /\ pdf_files = {}
    /\ _JOB_STORE = <<>>
    /\ tasks = [job_id \in JobIds |-> <<>>]
    /\ started = 0
    /\ reply = NoReply
    /\ settings \in [google_api_key : BOOLEAN, elevenlabs_api_key : BOOLEAN,
                    background_music : MusicAssets]
    /\ asm = NoAssembly
    /\ ask = NoAsk
    /\ _USER_SCORE = <<>>

\* One statement of _run_pipeline (lines 92-151)
StepFair(r) ==
    \/ update_parsing_start(r)
    \/ parse_pdf_returns(r)
    \/ parse_pdf_raises(r)
    \/ update_parsed(r)
    \/ check_google_api_key(r)
    \/ update_scripting_start(r)
    \/ generate_script_returns_fallback(r)
    \/ generate_script_raises(r)
    \/ save_script(r)
    \/ update_script_ready(r)
    \/ update_synthesising_start(r)
    \/ synthesise_script_returns(r)
    \/ update_synthesis_complete(r)
    \/ update_mixing(r)
    \/ mix_podcast_returns(r)
    \/ mix_podcast_raises(r)
    \/ build_result(r)
    \/ rewrite_chapters(r)
    \/ save_result(r)
    \/ resave_script(r)
    \/ update_done(r)
    \/ handle_exception(r)

RunFair == \E r \in JobIds \X (1..MaxRuns) : StepFair(r)

NextFair ==
    \/ \E job_id \in JobIds : ingest_pdf(job_id)
    \/ \E job_id \in JobIds : start_generation_not_found(job_id)
    \/ \E job_id \in JobIds : start_generation_current(job_id)
    \/ \E job_id \in JobIds : start_generation_new(job_id)
    \/ \E job_id \in JobIds : get_status_not_found(job_id)
    \/ \E job_id \in JobIds : get_status(job_id)
    \/ RunFair

SpecFair == InitFair /\ [][NextFair]_vars /\ WF_vars(RunFair)

-----------------------------------------------------------------------------
(* The orchestrator over an upload directory that something other than the  *)
(* program may empty: a saved PDF can be gone at any request                 *)

\* settings.upload_dir is a directory of the file system: the PDF of a job is
\* removed from outside
remove_pdf(job_id) ==
    /\ LoopFree
    /\ job_id \in pdf_files
    /\ pdf_files' = pdf_files \ {job_id}
    /\ reply' = NoReply
    /\ UNCHANGED <<_JOB_STORE, tasks, started, settings, asm, ask, _USER_SCORE>>

NextUploads ==
    \/ \E job_id \in JobIds : ingest_pdf(job_id)
    \/ \E job_id \in JobIds : remove_pdf(job_id)
    \/ \E job_id \in JobIds : start_generation_not_found(job_id)
    \/ \E job_id \in JobIds : start_generation_current(job_id)
    \/ \E job_id \in JobIds : start_generation_new(job_id)
    \/ \E job_id \in JobIds : get_status_not_found(job_id)
    \/ \E job_id \in JobIds : get_status(job_id)
    \/ RunFallback
    \/ \E r \in JobIds \X (1..MaxRuns) : parse_pdf_raises(r)
    \/ \E r \in JobIds \X (1..MaxRuns) : handle_exception(r)

SpecUploads == InitFallback /\ [][NextUploads]_vars

-----------------------------------------------------------------------------
(* routers/podcast.py: submit_quiz, on a store that holds no entry, an entry *)
(* without a script, or an entry with a script and its quiz                 *)

QuizResult(score, total, points_earned) ==
    [score |-> score, total |-> total, points_earned |-> points_earned, feedback |-> <<>>]

\* The response of submit_quiz, with the submission it answers
QuizReply(job_id, answers, code, body) ==
    [op |-> "submit_quiz", job_id |-> job_id, code |-> code, body |-> body,
     answers |-> answers]

\* Mutant of line 106: a wrong answer scores
QuizScore_counts_wrong(questions, answers) ==
    Cardinality({i \in 1..Min(Len(questions), Len(answers)) :
                    answers[i] # questions[i].correct_index})

\* line 106: sum(1 for q, ans in zip(questions, sub.answers) if ans == q.correct_index)
RECURSIVE QuizScore(_, _)
QuizScore(questions, answers) ==
    IF questions = <<>> \/ answers = <<>> THEN 0
    ELSE (IF Head(answers) = Head(questions).correct_index THEN 1 ELSE 0)
            + QuizScore(Tail(questions), Tail(answers))

\* _USER_SCORE.get(job_id, 0)
UserScore(job_id) == IF job_id \in DOMAIN _USER_SCORE THEN _USER_SCORE[job_id] ELSE 0

\* lines 101-102: the script of _JOB_STORE.get(job_id), None without an entry
StoredScript(job_id) ==
    IF job_id \in DOMAIN _JOB_STORE THEN _JOB_STORE[job_id].script ELSE None

Submissions == SeqsUpTo(0..1, MaxAnswers)

\* lines 101-103
submit_quiz_not_found(job_id, answers) ==
    /\ LoopFree
    /\ StoredScript(job_id) = None
    /\ reply' = QuizReply(job_id, answers, 404, None)
    /\ UNCHANGED <<pdf_files, _JOB_STORE, tasks, started, settings, asm, ask, _USER_SCORE>>

\* lines 105-114
submit_quiz(job_id, answers) ==
    /\ LoopFree
    /\ StoredScript(job_id) # None
    /\ LET questions == StoredScript(job_id)[1].quiz_questions
           score     == QuizScore(questions, answers)
       IN  /\ UserScore(job_id) + score <= MaxScore
           /\ _USER_SCORE' = [k \in DOMAIN _USER_SCORE \cup {job_id} |->
                                 IF k = job_id THEN UserScore(job_id) + score
                                 ELSE _USER_SCORE[k]]
           /\ reply' = QuizReply(job_id, answers, 200,
                                 Some(QuizResult(score, Len(questions), score)))
    /\ UNCHANGED <<pdf_files, _JOB_STORE, tasks, started, settings, asm, ask>>

\* The quizzes a stored script may hold
Quizzes == SeqsUpTo({QuizQuestion(c) : c \in 0..1}, MaxQuiz)

\* The entry of a job whose run has stored its script, the quiz in it
ScriptedJob(job_id, quiz) ==
    JobStatusResponse(job_id, SCRIPTING, 50, <<"Script ready: ", "0", " lines, ", "3", " chapters.">>,
                      None, Some(AssembleScript(job_id, FallbackChapters, <<>>, quiz)))

InitQuiz ==
    /\ pdf_files = {"j1"}
    /\ _JOB_STORE \in
          {<<>>, [j \in {"j1"} |-> JobStatusResponse("j1", PENDING, 0, <<"Generation queued...">>,
                                                      None, None)]}
          \cup {[j \in {"j1"} |-> ScriptedJob("j1", quiz)] : quiz \in Quizzes}
    /\ tasks = [job_id \in JobIds |-> <<>>]
    /\ started = 0
    /\ reply = NoReply
    /\ settings = [google_api_key |-> TRUE, elevenlabs_api_key |-> FALSE,
                   background_music |-> None]
    /\ asm = NoAssembly
    /\ ask = NoAsk
    /\ _USER_SCORE = <<>>

NextQuiz ==
    \/ \E job_id \in JobIds, answers \in Submissions : submit_quiz_not_found(job_id, answers)
    \/ \E job_id \in JobIds, answers \in Submissions : submit_quiz(job_id, answers)

SpecQuiz == InitQuiz /\ [][NextQuiz]_vars

-----------------------------------------------------------------------------
(* services/script_generator.py: _ask followed attempt by attempt, for each  *)
(* provider call of generate_script in one run of a job. ask.call numbers    *)
(* the calls of generate_script, ask.attempt is the loop variable of _ask,  *)
(* ask.log lists what the current call has done (requests and sleeps) and    *)
(* ask.raws the texts the calls have returned.                               *)

retries == 4

\* What str(e) of a failed request reads
RateLimitSignals == {"429 Too Many Requests", "RESOURCE_EXHAUSTED: quota"}
OtherErrors == {"500 INTERNAL", "'NoneType' object has no attribute 'strip'"}

\* line 54: "429" in err or "RESOURCE_EXHAUSTED" in err
IsRateLimit(err) == err \in RateLimitSignals

\* line 60
GenerationFailed(err) == "Gemini generation failed: " \o err

\* line 61
RateLimitExceeded ==
    "Gemini rate limit exceeded after all retries. Please wait 2 minutes and try again."

Request(outcome) == [op |-> "generate_content", outcome |-> outcome, wait |-> 0]
Sleep(wait) == [op |-> "sleep", outcome |-> "", wait |-> wait]

\* The provider calls of generate_script: the outline, one per chapter, the
\* study materials (lines 164, 219, 270)
Calls == IF ask.raws = <<>> THEN 2 ELSE Len(_generate_chapters(ask.raws[1])) + 2

AskFrame == reply' = NoReply /\ UNCHANGED <<pdf_files, _JOB_STORE, started, settings, asm, _USER_SCORE>>

\* lines 38-40: generate_script makes its next call of _ask
ask_begins(r) ==
    /\ Scheduled(r) /\ Task(r).pc = "L104"
    /\ \/ /\ ask.pc \in {"off", "raised", "done"}
          /\ ask' = [pc |-> "try", call |-> 1, attempt |-> 0, log |-> <<>>, raws |-> <<>>]
       \/ /\ ask.pc = "returned" /\ ask.call < Calls
          /\ ask' = [ask EXCEPT !.pc = "try", !.call = @ + 1, !.attempt = 0, !.log = <<>>]
    /\ UNCHANGED tasks
    /\ AskFrame

\* lines 42-51: the request succeeds; _ask returns its text
ask_attempt_returns(r) ==
    /\ Scheduled(r) /\ Task(r).pc = "L104"
    /\ ask.pc = "try" /\ ask.attempt < retries
    /\ \E raw \in FallbackResponses :
          ask' = [ask EXCEPT !.pc = "returned",
                             !.log = Append(@, Request("ok")),
                             !.raws = Append(@, raw)]
    /\ UNCHANGED tasks
    /\ AskFrame

\* lines 52-55: the request fails with a rate-limit signal
ask_attempt_rate_limited(r) ==
    /\ Scheduled(r) /\ Task(r).pc = "L104"
    /\ ask.pc = "try" /\ ask.attempt < retries
    /\ \E err \in RateLimitSignals \cup OtherErrors :
          /\ IsRateLimit(err)
          /\ ask' = [ask EXCEPT !.pc = "sleep", !.log = Append(@, Request(err))]
    /\ UNCHANGED tasks
    /\ AskFrame

\* Mutant of line 55: the wait does not grow with the attempt
ask_sleeps_flat(r) ==
    /\ Scheduled(r) /\ Task(r).pc = "L104"
    /\ ask.pc = "sleep"
    /\ ask' = [ask EXCEPT !.pc = "try", !.log = Append(@, Sleep(60)), !.attempt = @ + 1]
    /\ UNCHANGED tasks
    /\ AskFrame

\* lines 55-57, 41: the wait, then the loop goes on
ask_sleeps(r) ==
    /\ Scheduled(r) /\ Task(r).pc = "L104"
    /\ ask.pc = "sleep"
    /\ ask' = [ask EXCEPT !.pc = "try",
                          !.log = Append(@, Sleep(60 * (ask.attempt + 1))),
                          !.attempt = @ + 1]
    /\ UNCHANGED tasks
    /\ AskFrame

\* Mutant of lines 58-60: any failure is waited out and tried again
ask_attempt_fails_retried(r) ==
    /\ Scheduled(r) /\ Task(r).pc = "L104"
    /\ ask.pc = "try" /\ ask.attempt < retries
    /\ \E err \in RateLimitSignals \cup OtherErrors :
          /\ ~IsRateLimit(err)
          /\ ask' = [ask EXCEPT !.pc = "sleep", !.log = Append(@, Request(err))]
    /\ UNCHANGED tasks
    /\ AskFrame

\* lines 58-60: the request fails otherwise; the failure leaves generate_script
ask_attempt_fails(r) ==
    /\ Scheduled(r) /\ Task(r).pc = "L104"
    /\ ask.pc = "try" /\ ask.attempt < retries
    /\ \E err \in RateLimitSignals \cup OtherErrors :
          /\ ~IsRateLimit(err)
          /\ ask' = [ask EXCEPT !.pc = "raised", !.log = Append(@, Request(err))]
          /\ Raise(r, GenerationFailed(err))
    /\ AskFrame

\* Mutant of line 61: the exhausted rate limit is raised as a generation failure
ask_exhausted_generic(r) ==
    /\ Scheduled(r) /\ Task(r).pc = "L104"
    /\ ask.pc = "try" /\ ask.attempt = retries
    /\ ask' = [ask EXCEPT !.pc = "raised"]
    /\ Raise(r, GenerationFailed("429 Too Many Requests"))
    /\ AskFrame

\* line 61: the loop has ended; the failure leaves generate_script
ask_exhausted(r) ==
    /\ Scheduled(r) /\ Task(r).pc = "L104"
    /\ ask.pc = "try" /\ ask.attempt = retries
    /\ ask' = [ask EXCEPT !.pc = "raised"]
    /\ Raise(r, RateLimitExceeded)
    /\ AskFrame

\* script_generator.py lines 122-138, generate.py line 104: the last call has
\* returned; generate_script assembles the script and returns it
ask_generate_script_returns(r) ==
    /\ Scheduled(r) /\ Task(r).pc = "L104"
    /\ ask.pc = "returned" /\ ask.call = Calls
    /\ ask' = [ask EXCEPT !.pc = "done"]
    /\ LET n == Len(ask.raws)
       IN  Put(r, [Task(r) EXCEPT !.pc = "L107",
                                 !.script = Some(generate_script(Task(r).job_id, ask.raws[1],
                                                                    SubSeq(ask.raws, 2, n - 1),
                                                                    ask.raws[n]))])
    /\ AskFrame

\* One job, accepted by start_generation, its task not yet begun
InitAsk ==
    /\ pdf_files = {"j1"}
    /\ _JOB_STORE = [j \in {"j1"} |-> JobStatusResponse("j1", PENDING, 0, <<"Generation queued...">>,
                                                        None, None)]
    /\ tasks = [job_id \in JobIds |-> IF job_id = "j1" THEN <<Run("j1", "L94")>> ELSE <<>>]
    /\ started = 1
    /\ reply = NoReply
    /\ settings = [google_api_key |-> TRUE, elevenlabs_api_key |-> FALSE,
                   background_music |-> None]
    /\ asm = NoAssembly
    /\ ask = NoAsk
    /\ _USER_SCORE = <<>>

NextAsk ==
    \/ \E r \in JobIds \X (1..MaxRuns) : update_parsing_start(r)
    \/ \E r \in JobIds \X (1..MaxRuns) : parse_pdf_returns(r)
    \/ \E r \in JobIds \X (1..MaxRuns) : update_parsed(r)
    \/ \E r \in JobIds \X (1..MaxRuns) : check_google_api_key(r)
    \/ \E r \in JobIds \X (1..MaxRuns) : update_scripting_start(r)
    \/ \E r \in JobIds \X (1..MaxRuns) : ask_begins(r)
    \/ \E r \in JobIds \X (1..MaxRuns) : ask_attempt_returns(r)
    \/ \E r \in JobIds \X (1..MaxRuns) : ask_attempt_rate_limited(r)
    \/ \E r \in JobIds \X (1..MaxRuns) : ask_sleeps(r)
    \/ \E r \in JobIds \X (1..MaxRuns) : ask_attempt_fails(r)
    \/ \E r \in JobIds \X (1..MaxRuns) : ask_exhausted(r)
    \/ \E r \in JobIds \X (1..MaxRuns) : ask_generate_script_returns(r)
    \/ \E r \in JobIds \X (1..MaxRuns) : save_script(r)
    \/ \E r \in JobIds \X (1..MaxRuns) : update_script_ready(r)
    \/ \E r \in JobIds \X (1..MaxRuns) : handle_exception(r)

SpecAsk == InitAsk /\ [][NextAsk]_vars

-----------------------------------------------------------------------------
(* services/tts_service.py: synthesise_script followed line by line, and    *)
(* _tts_with_retry request by request, in the run of a job whose script is  *)
(* stored. asm holds the locals of the call: idx, the 0-based index of the  *)
(* line under way, synthesised, the list built so far, attempt, the loop    *)
(* variable of _tts_with_retry, log, what the call has done for the line    *)
(* under way (requests and sleeps), posts, the requests made in all.        *)

Post(outcome) == [op |-> "post", outcome |-> outcome, wait |-> 0]

\* What a request may meet beside 200 and 429: another status, or an exception
\* (the transport fails, or the body is no audio)
OtherStatuses == {"500", "401"}
TransportErrors == {"ConnectError"}

\* lines 130-132, 141, 144
TTSFailure_status(status) == "ElevenLabs returned " \o status \o ": "
TTSFailure_attempts(e) == "ElevenLabs failed after 3 attempts: " \o e
TTSFailure_unable == "Unable to synthesise speech"

SpeechFrame == reply' = NoReply /\ UNCHANGED <<pdf_files, _JOB_STORE, started, settings, ask, _USER_SCORE>>

AtSpeech(r) == Scheduled(r) /\ Task(r).pc = "L112"

\* The line of the loop of synthesise_script under way
Line(r) == Task(r).script[1].dialogue[asm.idx + 1]

\* lines 46-59: the call begins; with no dialogue it returns the empty list
speech_begins(r) ==
    /\ AtSpeech(r)
    /\ asm.pc = "off"
    /\ IF Task(r).script[1].dialogue = <<>>
       THEN /\ asm' = [asm EXCEPT !.pc = "returned"]
            /\ Put(r, [Task(r) EXCEPT !.pc = "L113", !.synthesised = Some(<<>>)])
       ELSE /\ asm' = [asm EXCEPT !.pc = "loop"]
            /\ UNCHANGED tasks
    /\ SpeechFrame

\* Mutant of lines 74-75: a line with no text gets an entry of its own
speech_skips_line_kept(r) ==
    /\ AtSpeech(r)
    /\ asm.pc = "loop" /\ asm.idx < Len(Task(r).script[1].dialogue)
    /\ Line(r).text = 0
    /\ asm' = [asm EXCEPT !.idx = @ + 1,
                          !.synthesised = Append(@, SynthesisedLine(Upper(Line(r).host), 0, 0,
                                                                    Line(r).chapter_id, TRUE))]
    /\ UNCHANGED tasks
    /\ SpeechFrame

\* lines 61-75: a line with no text is passed over
speech_skips_line(r) ==
    /\ AtSpeech(r)
    /\ asm.pc = "loop" /\ asm.idx < Len(Task(r).script[1].dialogue)
    /\ Line(r).text = 0
    /\ asm' = [asm EXCEPT !.idx = @ + 1]
    /\ UNCHANGED tasks
    /\ SpeechFrame

\* lines 80-91, 106-108: no speech credential, the line gets synthetic audio
speech_synthetic_line(r) ==
    /\ AtSpeech(r)
    /\ asm.pc = "loop" /\ asm.idx < Len(Task(r).script[1].dialogue)
    /\ Line(r).text # 0
    /\ ~settings.elevenlabs_api_key
    /\ \E a \in _generate_synthetic_speech(Line(r).text, AssemblyAudio) :
          asm' = [asm EXCEPT !.idx = @ + 1,
                             !.synthesised = Append(@, SynthesisedLine(Upper(Line(r).host), Line(r).text,
                                                                       a, Line(r).chapter_id, TRUE))]
    /\ UNCHANGED tasks
    /\ SpeechFrame

\* lines 80, 106-121: with a credential, _tts_with_retry enters its loop
speech_enters_retry(r) ==
    /\ AtSpeech(r)
    /\ asm.pc = "loop" /\ asm.idx < Len(Task(r).script[1].dialogue)
    /\ Line(r).text # 0
    /\ settings.elevenlabs_api_key
    /\ asm' = [asm EXCEPT !.pc = "post", !.attempt = 0, !.log = <<>>]
    /\ UNCHANGED tasks
    /\ SpeechFrame

\* lines 123, 134-135, 82-91: status 200 and audio; the line is appended
speech_post_ok(r) ==
    /\ AtSpeech(r)
    /\ asm.pc = "post" /\ asm.attempt < 3
    /\ \E a \in AssemblyAudio.provider :
          asm' = [asm EXCEPT !.pc = "loop",
                             !.idx = @ + 1,
                             !.log = Append(@, Post("200")),
                             !.posts = @ + 1,
                             !.synthesised = Append(@, SynthesisedLine(Upper(Line(r).host), Line(r).text,
                                                                       a, Line(r).chapter_id, FALSE))]
    /\ UNCHANGED tasks
    /\ SpeechFrame

\* lines 123-125: status 429
speech_post_429(r) ==
    /\ AtSpeech(r)
    /\ asm.pc = "post" /\ asm.attempt < 3
    /\ asm' = [asm EXCEPT !.pc = "sleep", !.log = Append(@, Post("429")), !.posts = @ + 1]
    /\ UNCHANGED tasks
    /\ SpeechFrame

\* Mutant of line 125: the wait does not grow with the attempt
speech_sleeps_flat(r) ==
    /\ AtSpeech(r)
    /\ asm.pc = "sleep"
    /\ asm' = [asm EXCEPT !.pc = "post", !.log = Append(@, Sleep(1)), !.attempt = @ + 1]
    /\ UNCHANGED tasks
    /\ SpeechFrame

\* line 125 after a 429, line 142 after an exception; then line 121
speech_sleeps(r) ==
    /\ AtSpeech(r)
    /\ asm.pc = "sleep"
    /\ LET wait == IF asm.log[Len(asm.log)] = Post("429") THEN 2 ^ asm.attempt ELSE 1
       IN  asm' = [asm EXCEPT !.pc = "post", !.log = Append(@, Sleep(wait)), !.attempt = @ + 1]
    /\ UNCHANGED tasks
    /\ SpeechFrame

\* Mutant of lines 129-131: a line the provider refuses gets synthetic audio
speech_post_status_falls_back(r) ==
    /\ AtSpeech(r)
    /\ asm.pc = "post" /\ asm.attempt < 3
    /\ \E status \in OtherStatuses, a \in _generate_synthetic_speech(Line(r).text, AssemblyAudio) :
          asm' = [asm EXCEPT !.pc = "loop",
                             !.idx = @ + 1,
                             !.log = Append(@, Post(status)),
                             !.posts = @ + 1,
                             !.synthesised = Append(@, SynthesisedLine(Upper(Line(r).host), Line(r).text,
                                                                       a, Line(r).chapter_id, TRUE))]
    /\ UNCHANGED tasks
    /\ SpeechFrame

\* lines 129-131, 137-138: any other status than 200; the failure leaves
\* synthesise_script
speech_post_status(r) ==
    /\ AtSpeech(r)
    /\ asm.pc = "post" /\ asm.attempt < 3
    /\ \E status \in OtherStatuses :
          /\ asm' = [asm EXCEPT !.pc = "raised", !.log = Append(@, Post(status)), !.posts = @ + 1,
                                !.e = Some(TTSFailure_status(status))]
          /\ Raise(r, TTSFailure_status(status))
    /\ SpeechFrame

\* lines 139-142: the request or the decoding raises
speech_post_error(r) ==
    /\ AtSpeech(r)
    /\ asm.pc = "post" /\ asm.attempt < 3
    /\ \E e \in TransportErrors :
          IF asm.attempt = 2
          THEN /\ asm' = [asm EXCEPT !.pc = "raised", !.log = Append(@, Post(e)), !.posts = @ + 1,
                                     !.e = Some(TTSFailure_attempts(e))]
               /\ Raise(r, TTSFailure_attempts(e))
          ELSE /\ asm' = [asm EXCEPT !.pc = "sleep", !.log = Append(@, Post(e)), !.posts = @ + 1]
               /\ UNCHANGED tasks
    /\ SpeechFrame

\* line 144: the loop has ended
speech_exhausted(r) ==
    /\ AtSpeech(r)
    /\ asm.pc = "post" /\ asm.attempt = 3
    /\ asm' = [asm EXCEPT !.pc = "raised", !.e = Some(TTSFailure_unable)]
    /\ Raise(r, TTSFailure_unable)
    /\ SpeechFrame

\* tts_service.py lines 93-94, generate.py line 112
speech_returns(r) ==
    /\ AtSpeech(r)
    /\ asm.pc = "loop" /\ asm.idx >= Len(Task(r).script[1].dialogue)
    /\ asm' = [asm EXCEPT !.pc = "returned"]
    /\ Put(r, [Task(r) EXCEPT !.pc = "L113", !.synthesised = Some(asm.synthesised)])
    /\ SpeechFrame

\* The answers to the dialogue requests the stored scripts are made of
SpeechDialogueResponses ==
    { Json(JsonList(<<>>)),
      Json(JsonList(<<Entry("A", 3)>>)),
      Json(JsonList(<<Entry("a", 4), BadEntry, Entry("B", 0)>>)) }

SpeechScripts ==
    {generate_script("j1", Unparseable, dialogue_raws, Unparseable) :
        dialogue_raws \in [1..Len(FallbackChapters) -> SpeechDialogueResponses]}

\* One job whose run has stored its script and announced it (generate.py
\* lines 107-108)
InitSpeech ==
    /\ pdf_files = {"j1"}
    /\ \E script \in SpeechScripts :
          /\ _JOB_STORE = [j \in {"j1"} |->
                JobStatusResponse("j1", SCRIPTING, 50,
                                  <<"Script ready: ", ToString(Len(script.dialogue)), " lines, ",
                                    ToString(Len(script.chapters)), " chapters.">>,
                                  None, Some(script))]
          /\ tasks = [job_id \in JobIds |->
                        IF job_id = "j1"
                        THEN <<[Run("j1", "L111") EXCEPT !.doc = Some(CHOOSE d \in Docs : TRUE),
                                                        !.script = Some(script)]>>
                        ELSE <<>>]
    /\ started = 1
    /\ reply = NoReply
    /\ settings \in [google_api_key : {TRUE}, elevenlabs_api_key : BOOLEAN,
                    background_music : {None}]
    /\ asm = NoAssembly
    /\ ask = NoAsk
    /\ _USER_SCORE = <<>>

NextSpeech ==
    \/ \E r \in JobIds \X (1..MaxRuns) : update_synthesising_start(r)
    \/ \E r \in JobIds \X (1..MaxRuns) : speech_begins(r)
    \/ \E r \in JobIds \X (1..MaxRuns) : speech_skips_line(r)
    \/ \E r \in JobIds \X (1..MaxRuns) : speech_synthetic_line(r)
    \/ \E r \in JobIds \X (1..MaxRuns) : speech_enters_retry(r)
    \/ \E r \in JobIds \X (1..MaxRuns) : speech_post_ok(r)
    \/ \E r \in JobIds \X (1..MaxRuns) : speech_post_429(r)
    \/ \E r \in JobIds \X (1..MaxRuns) : speech_sleeps(r)
    \/ \E r \in JobIds \X (1..MaxRuns) : speech_post_status(r)
    \/ \E r \in JobIds \X (1..MaxRuns) : speech_post_error(r)
    \/ \E r \in JobIds \X (1..MaxRuns) : speech_exhausted(r)
    \/ \E r \in JobIds \X (1..MaxRuns) : speech_returns(r)
    \/ \E r \in JobIds \X (1..MaxRuns) : update_synthesis_complete(r)
    \/ \E r \in JobIds \X (1..MaxRuns) : update_mixing(r)
    \/ \E r \in JobIds \X (1..MaxRuns) : handle_exception(r)

SpecSpeech == InitSpeech /\ [][NextSpeech]_vars

-----------------------------------------------------------------------------
(* The services on their own: generate_script step by step, over every      *)
(* outline and every dialogue answer of the bounded provider, followed by   *)
(* synthesise_script and mix_podcast on the script it built                 *)

\* lines 97-98 of script_generator.py: no text credential
asm_generate_script_no_key ==
    /\ asm.pc = "chapters"
    /\ ~settings.google_api_key
    /\ asm' = [asm EXCEPT !.pc = "raised", !.e = Some(NoGoogleKey)]
    /\ UNCHANGED <<pdf_files, _JOB_STORE, tasks, started, reply, settings, ask, _USER_SCORE>>

\* line 104 of script_generator.py
asm_generate_chapters ==
    /\ asm.pc = "chapters"
    /\ settings.google_api_key
    /\ \E raw \in OutlineResponses :
         /\ _generate_chapters_error(raw) = None
         /\ asm' = [asm EXCEPT !.pc = "dialogue", !.outline = Some(raw),
                               !.chapters_data = _generate_chapters(raw), !.i = 1]
    /\ UNCHANGED <<pdf_files, _JOB_STORE, tasks, started, reply, settings, ask, _USER_SCORE>>

\* lines 104, 165-169 of script_generator.py: the answer makes
\* _generate_chapters raise, and generate_script with it
asm_generate_chapters_raises ==
    /\ asm.pc = "chapters"
    /\ settings.google_api_key
    /\ \E raw \in OutlineResponses :
         /\ _generate_chapters_error(raw) # None
         /\ asm' = [asm EXCEPT !.pc = "raised", !.outline = Some(raw),
                               !.e = _generate_chapters_error(raw)]
    /\ UNCHANGED <<pdf_files, _JOB_STORE, tasks, started, reply, settings, ask, _USER_SCORE>>

\* lines 187-238: one pass of the loop of _generate_dialogue
asm_generate_dialogue ==
    /\ asm.pc = "dialogue"
    /\ asm.i <= Len(asm.chapters_data)
    /\ \E raw \in DialogueResponses :
         asm' = [asm EXCEPT !.all_lines = @ \o ChapterLines(asm.chapters_data[asm.i], raw),
                            !.i = @ + 1]
    /\ UNCHANGED <<pdf_files, _JOB_STORE, tasks, started, reply, settings, ask, _USER_SCORE>>

\* line 118 of script_generator.py
asm_generate_study_materials ==
    /\ asm.pc = "dialogue"
    /\ asm.i > Len(asm.chapters_data)
    /\ \E raw \in StudyResponses :
         /\ _generate_study_materials_error(raw) = None
         /\ asm' = [asm EXCEPT !.pc = "study", !.study = Some(raw),
                               !.quiz = _generate_study_materials(raw)]
    /\ UNCHANGED <<pdf_files, _JOB_STORE, tasks, started, reply, settings, ask, _USER_SCORE>>

\* lines 118, 271-279 of script_generator.py: the answer makes
\* _generate_study_materials raise, and generate_script with it
asm_generate_study_materials_raises ==
    /\ asm.pc = "dialogue"
    /\ asm.i > Len(asm.chapters_data)
    /\ \E raw \in StudyResponses :
         /\ _generate_study_materials_error(raw) # None
         /\ asm' = [asm EXCEPT !.pc = "raised", !.study = Some(raw),
                               !.e = _generate_study_materials_error(raw)]
    /\ UNCHANGED <<pdf_files, _JOB_STORE, tasks, started, reply, settings, ask, _USER_SCORE>>

\* lines 122-124 of script_generator.py
asm_build_chapters ==
    /\ asm.pc = "study"
    /\ asm' = [asm EXCEPT !.pc = "built",
                          !.total_secs = SecsOfWords(TotalWords(asm.all_lines)),
                          !.chapters = _build_chapters(asm.chapters_data, asm.all_lines)]
    /\ UNCHANGED <<pdf_files, _JOB_STORE, tasks, started, reply, settings, ask, _USER_SCORE>>

\* tts_service.py lines 61-91: one pass of the loop of synthesise_script over
\* the dialogue of the script; idx is the 0-based index of the line
asm_synthesise_line ==
    /\ asm.pc = "built"
    /\ asm.idx < Len(asm.all_lines)
    /\ LET line == asm.all_lines[asm.idx + 1]
       IN  IF line.text = 0
           THEN asm' = [asm EXCEPT !.idx = @ + 1]
           ELSE \E t \in _tts_with_retry(line.text, settings.elevenlabs_api_key, AssemblyAudio) :
                  asm' = [asm EXCEPT
                             !.idx = @ + 1,
                             !.synthesised = Append(@, SynthesisedLine(Upper(line.host), line.text,
                                                                       t[1], line.chapter_id, t[2])),
                             !.posts = @ + t[3]]
    /\ UNCHANGED <<pdf_files, _JOB_STORE, tasks, started, reply, settings, ask, _USER_SCORE>>

\* tts_service.py lines 129-144: the provider fails on a line with text
asm_synthesise_raises ==
    /\ asm.pc = "built"
    /\ asm.idx < Len(asm.all_lines)
    /\ asm.all_lines[asm.idx + 1].text # 0
    /\ settings.elevenlabs_api_key
    /\ \E d \in TTSFailures, n \in 1..3 :
         asm' = [asm EXCEPT !.pc = "raised", !.e = Some(d), !.posts = @ + n]
    /\ UNCHANGED <<pdf_files, _JOB_STORE, tasks, started, reply, settings, ask, _USER_SCORE>>

\* tts_service.py lines 51-53 and 93-94
asm_synthesise_returns ==
    /\ asm.pc = "built"
    /\ asm.idx >= Len(asm.all_lines)
    /\ asm' = [asm EXCEPT !.pc = "synthesised"]
    /\ UNCHANGED <<pdf_files, _JOB_STORE, tasks, started, reply, settings, ask, _USER_SCORE>>

\* audio_mixer.py lines 25-78
asm_mix_podcast ==
    /\ asm.pc = "synthesised"
    /\ ~_load_music_loops(settings.background_music, MusicDuration(asm.synthesised))
    /\ LET cues == Cues(asm.synthesised)
       IN  \E vtt \in _write_vtt(cues, INTRO_MUSIC_MS) :
              asm' = [asm EXCEPT !.pc = "mixed",
                                 !.cues = cues,
                                 !.vtt = vtt,
                                 !.final_audio = FinalAudioLen(asm.synthesised),
                                 !.ts_chapters = mix_podcast(asm.synthesised)]
    /\ UNCHANGED <<pdf_files, _JOB_STORE, tasks, started, reply, settings, ask, _USER_SCORE>>

InitAssembly ==
    /\ pdf_files = {}
    /\ _JOB_STORE = <<>>
    /\ tasks = [job_id \in JobIds |-> <<>>]
    /\ started = 0
    /\ reply = NoReply
    /\ settings \in [google_api_key : BOOLEAN, elevenlabs_api_key : BOOLEAN,
                    background_music : {None}]
    /\ asm = [NoAssembly EXCEPT !.pc = "chapters"]
    /\ ask = NoAsk
    /\ _USER_SCORE = <<>>

NextAssembly ==
    \/ asm_generate_script_no_key
    \/ asm_generate_chapters
    \/ asm_generate_chapters_raises
    \/ asm_generate_dialogue
    \/ asm_generate_study_materials
    \/ asm_generate_study_materials_raises
    \/ asm_build_chapters
    \/ asm_synthesise_line
    \/ asm_synthesise_raises
    \/ asm_synthesise_returns
    \/ asm_mix_podcast

SpecAssembly == InitAssembly /\ [][NextAssembly]_vars

-----------------------------------------------------------------------------
(* Properties *)

Jobs == DOMAIN _JOB_STORE

Successor(status) ==
    CASE status = PENDING -> PARSING
      [] status = PARSING -> SCRIPTING
      [] status = SCRIPTING -> SYNTHESISING
      [] status = SYNTHESISING -> MIXING
      [] status = MIXING -> DONE
      [] OTHER -> "none"

Contains(message, description) == \E i \in 1..Len(message) : message[i] = description

\* A step taken by the pipeline, not by a request that starts a run
PipelineStep == started' = started /\ tasks' # tasks

\* C1: every status change a pipeline run makes goes to the immediate successor
\* in PENDING, PARSING, SCRIPTING, SYNTHESISING, MIXING, DONE or to ERROR (so no
\* status is skipped or revisited within a run), and a run begins at PENDING.
C1_StatusOrder ==
    [][ /\ \A j \in Jobs :
             (PipelineStep /\ _JOB_STORE'[j].status # _JOB_STORE[j].status)
                => _JOB_STORE'[j].status \in {Successor(_JOB_STORE[j].status), ERROR}
        /\ \A j \in JobIds :
             Len(tasks'[j]) > Len(tasks[j]) => _JOB_STORE'[j].status = PENDING
      ]_vars

C1_Witness ==
    \E j \in Jobs : _JOB_STORE[j].status = DONE /\ tasks[j] = <<>> /\ started >= 1

\* C2: start_generation for a job whose entry exists with a status other than
\* ERROR answers with the current entry, changes no entry and adds no task; no
\* job ever has two tasks.
C2_Idempotent ==
    [][ \A j \in JobIds :
          /\ (/\ reply'.op = "start_generation" /\ reply'.job_id = j
              /\ j \in Jobs /\ _JOB_STORE[j].status # ERROR)
                => /\ reply'.code = 200
                   /\ reply'.body = Some(_JOB_STORE[j])
                   /\ _JOB_STORE' = _JOB_STORE
                   /\ tasks' = tasks
                   /\ started' = started
          /\ Len(tasks'[j]) <= 1
      ]_vars

C2_Witness ==
    /\ reply.op = "start_generation" /\ reply.code = 200
    /\ reply.body[1].status = SCRIPTING
    /\ Len(tasks[reply.job_id]) = 1
    /\ started = 1

\* C3: start_generation for a job whose entry has status ERROR (its document
\* exists) replaces the entry by a fresh one, PENDING with progress 0, no script
\* and no result, and adds exactly one task, for that job.
C3_RestartAfterError ==
    [][ \A j \in JobIds :
          (/\ reply'.op = "start_generation" /\ reply'.job_id = j
           /\ j \in Jobs /\ _JOB_STORE[j].status = ERROR /\ j \in pdf_files)
             => /\ _JOB_STORE'[j].status = PENDING
                /\ _JOB_STORE'[j].progress_pct = 0
                /\ _JOB_STORE'[j].script = None
                /\ _JOB_STORE'[j].result = None
                /\ reply'.body = Some(_JOB_STORE'[j])
                /\ \A k \in Jobs \ {j} : _JOB_STORE'[k] = _JOB_STORE[k]
                /\ tasks' = [tasks EXCEPT ![j] = Append(@, Run(j, "L94"))]
                /\ started' = started + 1
      ]_vars

C3_Witness ==
    /\ reply.op = "start_generation" /\ reply.code = 200
    /\ Jobs = {reply.job_id}
    /\ started = 2
    /\ _JOB_STORE[reply.job_id].status = PENDING
    /\ Len(tasks[reply.job_id]) = 1

\* C4: when a stage has raised, the next step of the run sets status ERROR,
\* progress 0 and a message that contains the failure's description, and ends
\* the run; a job in ERROR has no task, so no stage runs again.
C4_ErrorCapture ==
    [][ \A j \in JobIds :
          /\ (Len(tasks[j]) >= 1 /\ tasks[j][1].pc = "L149")
                => /\ _JOB_STORE'[j].status = ERROR
                   /\ _JOB_STORE'[j].progress_pct = 0
                   /\ Contains(_JOB_STORE'[j].message, tasks[j][1].e[1])
                   /\ tasks'[j] = Tail(tasks[j])
          /\ (j \in DOMAIN _JOB_STORE' /\ _JOB_STORE'[j].status = ERROR)
                => /\ tasks'[j] = <<>>
                   /\ _JOB_STORE'[j].progress_pct = 0
      ]_vars

C4_Witness ==
    \E j \in Jobs :
        /\ _JOB_STORE[j].status = ERROR
        /\ _JOB_STORE[j].progress_pct = 0
        /\ Contains(_JOB_STORE[j].message, "Couldn't encode mp3")
        /\ tasks[j] = <<>>

\* C5: whenever a job's status is SYNTHESISING, MIXING or DONE its entry holds
\* the script.
C5_ScriptBeforeSynthesis ==
    \A j \in Jobs :
        _JOB_STORE[j].status \in {SYNTHESISING, MIXING, DONE} => _JOB_STORE[j].script # None

\* A status poll has observed an entry with the script and without a result
C5_Witness ==
    /\ reply.op = "get_status" /\ reply.code = 200
    /\ reply.body[1].status = SYNTHESISING
    /\ reply.body[1].script # None
    /\ reply.body[1].result = None

AbsDiff(a, b) == IF a >= b THEN a - b ELSE b - a

DoneComplete(job) ==
    /\ job.progress_pct = 100
    /\ job.script # None
    /\ job.result # None
    /\ job.result[1].audio_url = <<"/api/podcast/", job.job_id, "/audio">>
    /\ job.result[1].vtt_url = <<"/api/podcast/", job.job_id, "/captions">>

\* C6 as claimed: a DONE entry has progress 100, a script and a result whose
\* duration equals the sum of end_sec - start_sec over its chapters.
C6_Original ==
    \A j \in Jobs :
        _JOB_STORE[j].status = DONE
            => /\ DoneComplete(_JOB_STORE[j])
               /\ _JOB_STORE[j].result[1].duration_sec
                      = ChaptersDuration(_JOB_STORE[j].result[1].chapters)

\* C6 as amended: a DONE entry has progress 100, a script and a result whose
\* duration is a whole number of hundredths of a second within 0.005 s of the
\* sum of end_sec - start_sec over its chapters.
C6_DoneResult ==
    \A j \in Jobs :
        _JOB_STORE[j].status = DONE
            => /\ DoneComplete(_JOB_STORE[j])
               /\ _JOB_STORE[j].result[1].duration_sec % 10 = 0
               /\ AbsDiff(_JOB_STORE[j].result[1].duration_sec,
                          ChaptersDuration(_JOB_STORE[j].result[1].chapters)) <= 5

C6_Witness ==
    \E j \in Jobs :
        /\ _JOB_STORE[j].status = DONE
        /\ ChaptersDuration(_JOB_STORE[j].result[1].chapters) % 10 > 5
        /\ _JOB_STORE[j].result[1].duration_sec
              > ChaptersDuration(_JOB_STORE[j].result[1].chapters)

\* C7 as claimed: the rewrite with real timestamps keeps the number of chapters
\* of the persisted script and each chapter's id, title, line_start and
\* line_end.
C7_ChaptersKept ==
    [][ \A j \in JobIds :
          (Len(tasks[j]) >= 1 /\ tasks[j][1].pc = "L133" /\ tasks'[j] # tasks[j])
             => LET old == _JOB_STORE[j].script[1].chapters
                    new == _JOB_STORE'[j].script[1].chapters
                IN  /\ Len(new) = Len(old)
                    /\ \A i \in 1..Len(old) :
                          /\ new[i].line_start = old[i].line_start
                          /\ new[i].line_end = old[i].line_end
                          /\ new[i].id = old[i].id
                          /\ new[i].title = old[i].title
      ]_vars

\* C8: a step that leaves a job in ERROR (the transition to ERROR, or any step
\* while it stays in ERROR) keeps the entry's script and result, and a status
\* poll of a job in ERROR returns that script.
C8_ErrorKeepsScript ==
    [][ \A j \in Jobs :
          /\ (j \in DOMAIN _JOB_STORE' /\ _JOB_STORE'[j].status = ERROR)
                => /\ _JOB_STORE'[j].script = _JOB_STORE[j].script
                   /\ _JOB_STORE'[j].result = _JOB_STORE[j].result
          /\ (/\ reply'.op = "get_status" /\ reply'.job_id = j
              /\ _JOB_STORE[j].status = ERROR)
                => /\ reply'.code = 200
                   /\ reply'.body[1].status = ERROR
                   /\ reply'.body[1].script = _JOB_STORE[j].script
      ]_vars

C8_Witness ==
    /\ reply.op = "get_status" /\ reply.code = 200
    /\ reply.body[1].status = ERROR
    /\ reply.body[1].script # None
    /\ _JOB_STORE[reply.job_id].script = reply.body[1].script

\* C9: while a job is not in ERROR its progress never decreases from one update
\* of a run to the next; the progress is always in 0..100 and is 100 only with
\* status DONE.
C9_ProgressMonotone ==
    [][ \A j \in Jobs :
          /\ (PipelineStep /\ _JOB_STORE[j].status # ERROR /\ _JOB_STORE'[j].status # ERROR)
                => _JOB_STORE'[j].progress_pct >= _JOB_STORE[j].progress_pct
          /\ _JOB_STORE'[j].progress_pct \in 0..100
          /\ _JOB_STORE'[j].progress_pct = 100 => _JOB_STORE'[j].status = DONE
      ]_vars

C9_Witness ==
    \E j \in Jobs :
        /\ _JOB_STORE[j].status = MIXING /\ _JOB_STORE[j].progress_pct = 80
        /\ Len(tasks[j]) = 1 /\ tasks[j][1].pc = "L119"

\* The line ranges of chapters partition a dialogue of n lines: the first
\* starts at 0, each next one starts right after the one before ends, and the
\* last ends at n - 1.
Partition(chapters, n) ==
    /\ chapters # <<>>
    /\ chapters[1].line_start = 0
    /\ \A i \in 1..(Len(chapters) - 1) : chapters[i + 1].line_start = chapters[i].line_end + 1
    /\ chapters[Len(chapters)].line_end = n - 1

\* C10: the chapters _build_chapters builds have line ranges that partition the
\* dialogue, for every outline and dialogue that script assembly produces.
C10_ChaptersPartition ==
    asm.pc = "built" => Partition(asm.chapters, Len(asm.all_lines))

RECURSIVE SumEstimated(_)
SumEstimated(chapters) ==
    IF chapters = <<>> THEN 0
    ELSE Head(chapters).estimated_duration_sec + SumEstimated(Tail(chapters))

\* C11: the sum of the chapters' estimated_duration_sec differs from
\* total_estimated_duration_sec by less than the number of chapters, for every
\* script that assembly builds.
C11_DurationSum ==
    asm.pc = "built"
        => AbsDiff(SumEstimated(asm.chapters), asm.total_secs) < Len(asm.chapters)

\* C12: with no speech credential, synthesise_script makes no provider call and
\* every line it has synthesised is marked synthetic and lasts at least 1000 ms.
C12_SyntheticWithoutKey ==
    ~settings.elevenlabs_api_key
        => /\ asm.posts = 0
           /\ \A i \in 1..Len(asm.synthesised) :
                 /\ asm.synthesised[i].synthetic
                 /\ asm.synthesised[i].duration_ms >= 1000

\* synthesise_script has returned a short line and a line of seven words
C12_Witness ==
    /\ ~settings.elevenlabs_api_key
    /\ asm.pc = "synthesised"
    /\ \E i, j \in 1..Len(asm.synthesised) :
          /\ asm.synthesised[i].text = 1 /\ asm.synthesised[i].duration_ms = 1003
          /\ asm.synthesised[j].text = 7 /\ asm.synthesised[j].duration_ms = 1053

\* The length of the speech timeline: every line followed by its pause
RECURSIVE SpeechTimeline(_)
SpeechTimeline(synthesised) ==
    IF synthesised = <<>> THEN 0
    ELSE Head(synthesised).duration_ms + 600 + SpeechTimeline(Tail(synthesised))

\* C13: the timestamped chapters mix_podcast returns are chronological and do
\* not overlap, and the sum of end_sec - start_sec over them is the length of
\* the final audio, the intro of 4000 ms followed by the speech timeline.
C13_ChaptersSpanAudio ==
    asm.pc = "mixed"
        => /\ asm.ts_chapters # <<>>
           /\ \A i \in 1..Len(asm.ts_chapters) :
                 asm.ts_chapters[i].start_sec <= asm.ts_chapters[i].end_sec
           /\ \A i \in 1..(Len(asm.ts_chapters) - 1) :
                 asm.ts_chapters[i].end_sec <= asm.ts_chapters[i + 1].start_sec
           /\ ChaptersDuration(asm.ts_chapters) = asm.final_audio
           /\ asm.final_audio = 4000 + SpeechTimeline(asm.synthesised)

\* A mix of several lines
C13_Witness ==
    /\ asm.pc = "mixed"
    /\ Len(asm.synthesised) >= 3
    /\ asm.final_audio > 4000

\* C14: the cues written to the caption file are numbered 1..n, one per
\* synthesised line; their times do not decrease in line order; and every
\* written time is the cue's time on the speech timeline plus 4000 ms.
C14_CaptionCues ==
    asm.pc = "mixed"
        => /\ Len(asm.vtt) = Len(asm.synthesised)
           /\ \A i \in 1..Len(asm.vtt) :
                 /\ asm.vtt[i].index = i
                 /\ asm.vtt[i].start <= asm.vtt[i].end
                 /\ asm.vtt[i].start = asm.cues[i].start_sec + 4000
                 /\ asm.vtt[i].end = asm.cues[i].end_sec + 4000
           /\ \A i \in 1..(Len(asm.vtt) - 1) : asm.vtt[i + 1].start >= asm.vtt[i].end

FallbackScript(script) ==
    /\ [i \in 1..Len(script.chapters) |-> <<script.chapters[i].id, script.chapters[i].title>>]
          = << <<1, "Introduction">>, <<2, "Core Concepts">>, <<3, "Key Takeaways">> >>
    /\ script.quiz_questions = <<>>
    /\ script.dialogue = <<>>

\* C15: with a text credential, no speech credential and a text provider that
\* answers every call with '{}' or with text that is no JSON, no job is ever in
\* ERROR; the script generate_script returns has exactly the three fallback
\* chapters, an empty quiz and no dialogue; every synthesised line is synthetic;
\* a run that sets DONE has written the caption file; and every run that was
\* started leads to its job being DONE.
C15_FallbackRunsToDone ==
    /\ [](\A j \in Jobs : _JOB_STORE[j].status # ERROR)
    /\ [](\A j \in JobIds : \A n \in 1..Len(tasks[j]) :
            /\ tasks[j][n].pc = "L107" => FallbackScript(tasks[j][n].script[1])
            /\ tasks[j][n].synthesised # None
                  => \A i \in 1..Len(tasks[j][n].synthesised[1]) :
                        tasks[j][n].synthesised[1][i].synthetic
            /\ tasks[j][n].pc = "L146" => tasks[j][n].vtt_path # None)
    /\ \A j \in JobIds :
          (tasks[j] # <<>>) ~> (j \in Jobs /\ _JOB_STORE[j].status = DONE /\ tasks[j] = <<>>)

C15_Witness ==
    \E j \in Jobs :
        /\ _JOB_STORE[j].status = DONE
        /\ tasks[j] = <<>>
        /\ _JOB_STORE[j].script[1].quiz_questions = <<>>
        /\ _JOB_STORE[j].script[1].dialogue = <<>>
        /\ _JOB_STORE[j].result[1].duration_sec = 4000

\* C16: submit_quiz for a job with a stored script answers with score = the
\* number of positions below min(answers, questions) where the answer is the
\* question's correct_index, total = the number of stored questions and
\* points_earned = score, so 0 <= score <= total; for a job id with no entry or
\* no script it answers not found.
C16_QuizScore ==
    [][ reply'.op = "submit_quiz"
          => LET j == reply'.job_id
                 a == reply'.answers
             IN  IF j \in Jobs /\ _JOB_STORE[j].script # None
                 THEN LET q    == _JOB_STORE[j].script[1].quiz_questions
                          both == 1..(IF Len(a) <= Len(q) THEN Len(a) ELSE Len(q))
                          body == reply'.body[1]
                      IN  /\ reply'.code = 200
                          /\ body.score = Cardinality({i \in both : a[i] = q[i].correct_index})
                          /\ body.total = Len(q)
                          /\ body.points_earned = body.score
                          /\ 0 <= body.score /\ body.score <= body.total
                 ELSE /\ reply'.code = 404
                      /\ reply'.body = None
                      /\ _USER_SCORE' = _USER_SCORE
      ]_vars

\* More answers than questions, one of the two answered questions right
C16_Witness ==
    /\ reply.op = "submit_quiz" /\ reply.code = 200
    /\ Len(reply.answers) = 3
    /\ reply.body[1].total = 2
    /\ reply.body[1].score = 1

\* The requests a call of _ask has made, and those a rate-limit signal answered
Requests(log) == {i \in 1..Len(log) : log[i].op = "generate_content"}
RateLimited(log) == {i \in Requests(log) : log[i].outcome \in RateLimitSignals}

\* C17: when every one of the attempts of a call of _ask has been answered with
\* a rate-limit signal, the call raises the rate-limit failure, which no
\* generic generation failure equals; the failure leaves generate_script for
\* the handler of the run, and the run's next step puts the job in ERROR with
\* the message that tells the user to wait and try again.
C17_RateLimitExhausted ==
    [][ /\ (/\ ask.pc = "try"
            /\ Cardinality(Requests(ask.log)) = retries
            /\ RateLimited(ask.log) = Requests(ask.log))
              => /\ ask'.pc = "raised"
                 /\ ask'.log = ask.log
                 /\ tasks'["j1"][1].pc = "L149"
                 /\ tasks'["j1"][1].e =
                      Some("Gemini rate limit exceeded after all retries. Please wait 2 minutes and try again.")
                 /\ \A err \in RateLimitSignals \cup OtherErrors :
                        tasks'["j1"][1].e # Some(GenerationFailed(err))
        /\ (/\ ask.pc = "raised"
            /\ Cardinality(RateLimited(ask.log)) = retries
            /\ tasks["j1"] # <<>>)
              => /\ tasks'["j1"] = <<>>
                 /\ _JOB_STORE'["j1"].status = ERROR
                 /\ _JOB_STORE'["j1"].message =
                      <<"Error: ",
                        "Gemini rate limit exceeded after all retries. Please wait 2 minutes and try again.">>
      ]_vars

\* The third call of generate_script has exhausted its attempts and the job is
\* in ERROR
C17_Witness ==
    /\ ask.pc = "raised" /\ ask.call = 3
    /\ Cardinality(RateLimited(ask.log)) = retries
    /\ _JOB_STORE["j1"].status = ERROR
    /\ Contains(_JOB_STORE["j1"].message, RateLimitExceeded)

\* The number of the request at place i of the log among the call's requests
AttemptNumber(log, i) == Cardinality({k \in Requests(log) : k <= i})

\* C18: one call of _ask makes at most 4 requests; the k-th request, when a
\* rate-limit signal answers it, is followed by a wait of 60*k seconds and,
\* while k < 4, by the next request; a request that succeeds is the call's
\* last, and the call has returned its text.
C18_LinearBackoff ==
    LET log == ask.log
    IN  /\ Cardinality(Requests(log)) <= 4
        /\ \A i \in RateLimited(log) :
              LET k == AttemptNumber(log, i)
              IN  /\ i = Len(log) => ask.pc = "sleep"
                  /\ i < Len(log) => log[i + 1] = Sleep(60 * k)
                  /\ (i + 1 = Len(log) /\ k < 4) => ask.pc = "try" /\ ask.attempt = k
                  /\ i + 1 < Len(log) => log[i + 2].op = "generate_content" /\ k < 4
        /\ \A i \in Requests(log) :
              log[i].outcome = "ok"
                => /\ i = Len(log)
                   /\ ask.pc \in {"returned", "done"}
                   /\ Len(ask.raws) = ask.call
        /\ \A i \in 1..Len(log) :
              log[i].op = "sleep" => i > 1 /\ (i - 1) \in RateLimited(log)

\* A call has returned the text of its fourth request, after waits of 60, 120
\* and 180 seconds
C18_Witness ==
    /\ ask.pc = "returned"
    /\ Len(ask.log) = 7
    /\ ask.log[2] = Sleep(60) /\ ask.log[4] = Sleep(120) /\ ask.log[6] = Sleep(180)
    /\ ask.log[7] = Request("ok")

\* C19: a request answered with a failure that is no rate-limit signal is the
\* last thing its call of _ask does (no wait, no further request): the call has
\* raised the generation failure that carries the cause, which is not the
\* rate-limit failure, and the run is at its handler or the job is in ERROR
\* with that failure in its message.
C19_OtherFailureNotRetried ==
    \A i \in Requests(ask.log) :
        ask.log[i].outcome \in OtherErrors
          => LET failure == "Gemini generation failed: " \o ask.log[i].outcome
             IN  /\ i = Len(ask.log)
                 /\ ask.pc = "raised"
                 /\ failure # RateLimitExceeded
                 /\ IF tasks["j1"] # <<>>
                    THEN tasks["j1"][1].pc = "L149" /\ tasks["j1"][1].e = Some(failure)
                    ELSE /\ _JOB_STORE["j1"].status = ERROR
                         /\ _JOB_STORE["j1"].message = <<"Error: ", failure>>

\* The third request of a call fails with a server error, after two waits
C19_Witness ==
    /\ ask.pc = "raised"
    /\ Len(ask.log) = 5
    /\ ask.log[5] = Request("500 INTERNAL")
    /\ _JOB_STORE["j1"].status = ERROR

\* C20: start_generation for a job id whose PDF is not in the upload directory
\* answers not found, leaves the job store as it is, whatever entry it holds
\* for the job id, and starts no run: the missing document makes no job in
\* ERROR.
C20_MissingDocument ==
    [][ \A job_id \in JobIds :
          (reply'.op = "start_generation" /\ reply'.job_id = job_id /\ job_id \notin pdf_files)
            => /\ reply'.code = 404
               /\ reply'.body = None
               /\ _JOB_STORE' = _JOB_STORE
               /\ tasks' = tasks
               /\ started' = started
               /\ job_id \notin Jobs => job_id \notin DOMAIN _JOB_STORE'
      ]_vars

\* Not found for a job id whose entry is in ERROR, and whose PDF is gone
C20_Witness ==
    /\ reply.op = "start_generation" /\ reply.code = 404
    /\ reply.job_id \notin pdf_files
    /\ reply.job_id \in Jobs
    /\ _JOB_STORE[reply.job_id].status = ERROR
    /\ tasks[reply.job_id] = <<>>

\* C21: with no text credential, a run whose document has been parsed raises
\* 'No GOOGLE_API_KEY set in .env file.' at its credential check and its next
\* step puts the job in ERROR with progress 0 and that text in the message; no
\* run ever gets to the text stage or the speech stage, so no job has a status
\* past PARSING other than ERROR, and none holds a script.
C21_NoTextCredential ==
    /\ [](~settings.google_api_key
            => \A j \in JobIds :
                  /\ \A i \in 1..Len(tasks[j]) :
                        /\ tasks[j][i].pc \in {"L94", "L96", "L97", "L99", "L149"}
                        /\ tasks[j][i].script = None /\ tasks[j][i].synthesised = None
                        /\ (tasks[j][i].pc = "L149" /\ tasks[j][i].doc # None)
                              => tasks[j][i].e = Some("No GOOGLE_API_KEY set in .env file.")
                  /\ j \in Jobs
                        => /\ _JOB_STORE[j].status \in {PENDING, PARSING, ERROR}
                           /\ _JOB_STORE[j].script = None
                           /\ _JOB_STORE[j].status = ERROR => _JOB_STORE[j].progress_pct = 0)
    /\ [][ \A j \in JobIds :
              (/\ ~settings.google_api_key
               /\ tasks[j] # <<>>
               /\ tasks[j][1].pc = "L149"
               /\ tasks[j][1].doc # None
               /\ tasks'[j] # tasks[j])
                 => /\ tasks'[j] = <<>>
                    /\ _JOB_STORE'[j].status = ERROR
                    /\ _JOB_STORE'[j].progress_pct = 0
                    /\ _JOB_STORE'[j].message = <<"Error: ", "No GOOGLE_API_KEY set in .env file.">>
          ]_vars

\* A job whose document was parsed is in ERROR for the missing credential
C21_Witness ==
    /\ ~settings.google_api_key
    /\ \E j \in Jobs :
          /\ _JOB_STORE[j].status = ERROR
          /\ _JOB_STORE[j].progress_pct = 0
          /\ Contains(_JOB_STORE[j].message, NoGoogleKey)
          /\ tasks[j] = <<>>

\* generate_script called on its own with no text credential raises the same
\* failure before any provider call
C21_DirectCall ==
    ~settings.google_api_key
      => /\ asm.pc \in {"chapters", "raised"}
         /\ asm.chapters_data = <<>> /\ asm.all_lines = <<>> /\ asm.posts = 0
         /\ asm.pc = "raised" => asm.e = Some("No GOOGLE_API_KEY set in .env file.")

\* The requests made for the line under way, and those that got no audio
Posts(log) == {i \in 1..Len(log) : log[i].op = "post"}
FailedPosts(log) == {i \in Posts(log) : log[i].outcome # "200"}

\* A line of the run under way has failed: a status other than 200 and 429, or
\* three requests without audio and the last wait over
LineFailed ==
    \/ \E i \in Posts(asm.log) : asm.log[i].outcome \in OtherStatuses
    \/ /\ Cardinality(FailedPosts(asm.log)) = 3
       /\ asm.log[Len(asm.log)].op = "post" => asm.log[Len(asm.log)].outcome # "429"

\* C22: with a speech credential no line of the list under construction or of
\* the list returned is synthetic; once the synthesis of a line has failed the
\* stage raises or has raised: the run never holds a list of lines, it is at
\* its handler or ended with the job in ERROR, and the job never gets to
\* MIXING.
C22_NoPartialAudio ==
    /\ [](settings.elevenlabs_api_key
            => /\ \A i \in 1..Len(asm.synthesised) : ~asm.synthesised[i].synthetic
               /\ \A i \in 1..Len(tasks["j1"]) :
                     tasks["j1"][i].synthesised # None
                       => \A k \in 1..Len(tasks["j1"][i].synthesised[1]) :
                             ~tasks["j1"][i].synthesised[1][k].synthetic)
    /\ [](LineFailed
            => /\ asm.pc \in {"post", "raised"}
               /\ asm.pc = "post" => asm.attempt = 3
               /\ _JOB_STORE["j1"].status \in {SYNTHESISING, ERROR}
               /\ \A i \in 1..Len(tasks["j1"]) : tasks["j1"][i].synthesised = None
               /\ asm.pc = "raised"
                     => IF tasks["j1"] # <<>>
                        THEN tasks["j1"][1].pc = "L149" /\ tasks["j1"][1].e = asm.e
                        ELSE _JOB_STORE["j1"].status = ERROR)
    /\ [][ (LineFailed /\ tasks["j1"] # <<>> /\ tasks'["j1"] # tasks["j1"])
             => \/ asm.pc = "post" /\ asm'.pc = "raised" /\ tasks'["j1"][1].pc = "L149"
                \/ asm.pc = "raised" /\ tasks'["j1"] = <<>> /\ _JOB_STORE'["j1"].status = ERROR
          ]_vars

\* The second line of a script fails after the first got its audio, and the
\* job is in ERROR
C22_Witness ==
    /\ settings.elevenlabs_api_key
    /\ LineFailed
    /\ asm.idx >= 1 /\ Len(asm.synthesised) >= 1
    /\ tasks["j1"] = <<>>
    /\ _JOB_STORE["j1"].status = ERROR

\* The 0-based number of the request at place i of the log among the requests
\* made for the line
PostNumber(log, i) == Cardinality({k \in Posts(log) : k < i})

\* C23: _tts_with_retry makes at most 3 requests for a line, whatever 429
\* answers and exceptions it meets; a 429 on request n (n = 0, 1, 2) is
\* followed by a wait of 2^n seconds and, for n < 2, by the next request; any
\* other status than 200 is the last thing the call does and raises the
\* synthesis failure that names the status; after three requests without
\* audio the call makes no other and raises a synthesis failure.
C23_SpeechRetries ==
    /\ [](LET log == asm.log
          IN  /\ Cardinality(Posts(log)) <= 3
              /\ log # <<>> => settings.elevenlabs_api_key
              /\ \A i \in Posts(log) :
                    LET n == PostNumber(log, i)
                    IN  /\ log[i].outcome = "429"
                              => /\ i = Len(log) => asm.pc = "sleep"
                                 /\ i < Len(log)
                                       => log[i + 1] = Sleep(CASE n = 0 -> 1 [] n = 1 -> 2 [] n = 2 -> 4)
                                 /\ (i + 1 = Len(log) /\ n < 2) => asm.pc = "post" /\ asm.attempt = n + 1
                                 /\ i + 1 < Len(log) => log[i + 2].op = "post" /\ n < 2
                        /\ log[i].outcome \in OtherStatuses
                              => /\ i = Len(log)
                                 /\ asm.pc = "raised"
                                 /\ asm.e = Some("ElevenLabs returned " \o log[i].outcome \o ": ")
                        /\ log[i].outcome = "200" => i = Len(log) /\ asm.pc \in {"loop", "returned"}
              /\ Cardinality(FailedPosts(log)) = 3
                    => /\ asm.pc \in {"sleep", "post", "raised"}
                       /\ asm.pc = "post" => asm.attempt = 3
                       /\ asm.pc = "raised"
                             => asm.e \in {Some("Unable to synthesise speech"),
                                           Some("ElevenLabs failed after 3 attempts: ConnectError"),
                                           Some("ElevenLabs returned 500: "),
                                           Some("ElevenLabs returned 401: ")})
    /\ [][ (Cardinality(FailedPosts(asm.log)) = 3 /\ asm.pc = "post")
              => asm'.pc = "raised" /\ asm'.log = asm.log /\ tasks'["j1"][1].pc = "L149"
          ]_vars

\* A 429, an exception and a 429: waits of 1, 1 and 4 seconds, three requests
\* and the failure
C23_Witness ==
    /\ asm.pc = "raised"
    /\ asm.log = <<Post("429"), Sleep(1), Post("ConnectError"), Sleep(1), Post("429"), Sleep(4)>>
    /\ asm.e = Some(TTSFailure_unable)

HasText(line) == line.text # 0

\* What an entry of the synthesised list carries of its dialogue line
Carried(lines) == [i \in 1..Len(lines) |-> <<lines[i].host, lines[i].text, lines[i].chapter_id>>]

\* C24: at every point of synthesise_script the list built so far is the lines
\* with text among the first idx lines of the dialogue, in their order, each
\* with the role, text and chapter id of its line; requests are made for line
\* idx + 1 only, so only after every earlier line with text has its audio; the
\* list returned is the lines with text of the whole dialogue.
C24_SpokenLinesInOrder ==
    LET dialogue == _JOB_STORE["j1"].script[1].dialogue
    IN  /\ asm.idx <= Len(dialogue)
        /\ Carried(asm.synthesised) = Carried(SelectSeq(SubSeq(dialogue, 1, asm.idx), HasText))
        /\ asm.pc \in {"post", "sleep"}
              => /\ asm.idx < Len(dialogue)
                 /\ HasText(dialogue[asm.idx + 1])
                 /\ Len(asm.synthesised) = Len(SelectSeq(SubSeq(dialogue, 1, asm.idx), HasText))
        /\ \A i \in 1..Len(tasks["j1"]) :
              tasks["j1"][i].synthesised # None
                => Carried(tasks["j1"][i].synthesised[1]) = Carried(SelectSeq(dialogue, HasText))

\* A list of three entries returned for a dialogue of five lines
C24_Witness ==
    /\ tasks["j1"] # <<>>
    /\ tasks["j1"][1].synthesised # None
    /\ Len(tasks["j1"][1].synthesised[1]) = 3
    /\ Len(tasks["j1"][1].script[1].dialogue) = 5
    /\ asm.posts > 3

\* The outline answers C25 is about: text that is no JSON, JSON that is no
\* object, a "chapters" value that is no list of objects, or no chapter at all
MalformedOutline(raw) ==
    IF ~raw.parses THEN TRUE
    ELSE IF raw.value.type # "object" THEN TRUE
    ELSE IF "chapters" \notin DOMAIN raw.value THEN TRUE
    ELSE \/ raw.value.chapters = <<>>
         \/ \E i \in 1..Len(raw.value.chapters) : "scalar" \in DOMAIN raw.value.chapters[i]

\* C25: when the answer to the outline request has no chapter or is malformed,
\* _generate_chapters returns the three chapters Introduction, Core Concepts,
\* Key Takeaways and raises nothing.
C25_FallbackOnMalformed ==
    (asm.outline # None /\ MalformedOutline(asm.outline[1]))
      => /\ asm.e \notin {Some("AttributeError"), Some("TypeError")}
         /\ [i \in 1..Len(asm.chapters_data) |-> asm.chapters_data[i].title]
               = <<"Introduction", "Core Concepts", "Key Takeaways">>

\* C26: a failure of a provider request that is no rate-limit signal, in any
\* of the calls generate_script makes, does not abort script assembly: the call
\* raises nothing, the run does not get to its handler and the job is not put
\* in ERROR.
C26_NeverAborts ==
    (\E i \in Requests(ask.log) : ask.log[i].outcome \in OtherErrors)
      => /\ ask.pc # "raised"
         /\ \A i \in 1..Len(tasks["j1"]) : tasks["j1"][i].pc # "L149"
         /\ _JOB_STORE["j1"].status # ERROR

\* The well-formed entries of a "quiz" list, in their order
RECURSIVE GoodEntries(_)
GoodEntries(entries) ==
    IF entries = <<>> THEN <<>>
    ELSE (IF Head(entries).ok THEN <<Head(entries).correct_index>> ELSE <<>>)
            \o GoodEntries(Tail(entries))

\* C27: _generate_study_materials raises nothing on the answer it gets; the
\* quiz it returns is made of the well-formed entries of the "quiz" list, in
\* their order, and is empty when the "quiz" value is missing or is no list.
C27_QuizDefaults ==
    asm.study # None
      => LET raw == asm.study[1]
             expected == IF raw.parses /\ "quiz" \in DOMAIN raw.value
                         THEN GoodEntries(raw.value.quiz) ELSE <<>>
         IN  /\ asm.e \notin {Some("AttributeError"), Some("TypeError")}
             /\ [i \in 1..Len(asm.quiz) |-> asm.quiz[i].correct_index] = expected

\* C28: a job id never has two runs in the event loop, under every
\* interleaving of requests and pipeline steps; a job with a run is in the
\* store and neither DONE nor in ERROR; a run is started for a job id only
\* when the store has no entry for it or its entry is in ERROR with no run
\* left; an entry changes only by the start of a run or by a step of the one
\* run of its job.
C28_OneRunPerJob ==
    /\ [](\A j \in JobIds :
            /\ Len(tasks[j]) <= 1
            /\ Len(tasks[j]) = 1 => j \in Jobs /\ _JOB_STORE[j].status \notin {DONE, ERROR})
    /\ [][ \A j \in JobIds :
              /\ Len(tasks'[j]) > Len(tasks[j])
                    => /\ tasks[j] = <<>>
                       /\ j \in Jobs => _JOB_STORE[j].status = ERROR
              /\ (j \in Jobs /\ _JOB_STORE'[j] # _JOB_STORE[j])
                    => \/ Len(tasks[j]) = 1 /\ tasks'[j] # tasks[j]
                       \/ tasks[j] = <<>> /\ Len(tasks'[j]) = 1 /\ _JOB_STORE[j].status = ERROR
          ]_vars

\* The second run of a job is under way, its first having ended in ERROR
C28_Witness ==
    \E j \in Jobs :
        /\ Jobs = {j}
        /\ started = 2 /\ Len(tasks[j]) = 1
        /\ _JOB_STORE[j].status = PARSING

-----------------------------------------------------------------------------
\* A run of the job waits on a provider call: inside generate_script or
\* inside synthesise_script
InFlight(job_id) ==
    {i \in 1..Len(tasks[job_id]) : tasks[job_id][i].pc \in {"L104", "L112"}}

\* The job has been accepted by start_generation and its run has not ended
Running(job_id) == tasks[job_id] # <<>>

Ended(job_id) == job_id \in Jobs /\ _JOB_STORE[job_id].status \in {DONE, ERROR}

C30_EveryJobEnds ==
    \A j \in JobIds : Running(j) ~> Ended(j)

-----------------------------------------------------------------------------
\* The status of the job of run r
StatusOf(r) == _JOB_STORE[Task(r).job_id].status

\* A statement of run r raises: the run goes to its handler (line 149)
Fails(r) ==
    \/ parse_pdf_raises(r)
    \/ check_google_api_key(r) /\ ~settings.google_api_key
    \/ generate_script_raises(r)
    \/ synthesise_script_raises(r)
    \/ mix_podcast_raises(r)

\* The status under which the statement at pc is executed
StatusAt(pc) ==
    CASE pc = "L96" -> PARSING
      [] pc = "L104" -> SCRIPTING
      [] pc = "L112" -> SYNTHESISING
      [] pc = "L119" -> MIXING
      [] OTHER -> ERROR

\* C31 as stated, for PENDING: a job whose status is PENDING can move to ERROR
\* directly, that is, the run of a PENDING job can fail at its next statement.
C31_Original ==
    \A r \in JobIds \X (1..MaxRuns) :
        (Scheduled(r) /\ StatusOf(r) = PENDING) => ENABLED Fails(r)

\* C31: a job moves to ERROR directly from PARSING, SCRIPTING, SYNTHESISING
\* and MIXING and from no other status (never from DONE, never from PENDING):
\* the calls that can raise are executed under these four statuses, each can
\* raise when its run is scheduled, and the handler finds the status that the
\* failed call was executed under.
C31_ErrorSources ==
    /\ [](\A r \in JobIds \X (1..MaxRuns) :
            /\ (r \in RunRefs /\ Task(r).pc \in {"L96", "L104", "L112", "L119"})
                  => StatusOf(r) = StatusAt(Task(r).pc)
            /\ (Scheduled(r) /\ Task(r).pc \in {"L96", "L104"}) => ENABLED Fails(r)
            /\ (Scheduled(r) /\ Task(r).pc = "L112" /\ settings.elevenlabs_api_key
                  /\ \E i \in 1..Len(Task(r).script[1].dialogue) :
                        Task(r).script[1].dialogue[i].text # 0) => ENABLED Fails(r)
            /\ (Scheduled(r) /\ Task(r).pc = "L119") => ENABLED Fails(r)
            /\ (r \in RunRefs /\ Task(r).pc = "L149")
                  => StatusOf(r) \in {PARSING, SCRIPTING, SYNTHESISING, MIXING})
    /\ [][ \A j \in Jobs :
              (j \in DOMAIN _JOB_STORE' /\ _JOB_STORE'[j].status = ERROR
                 /\ _JOB_STORE[j].status # ERROR)
                 => _JOB_STORE[j].status \in {PARSING, SCRIPTING, SYNTHESISING, MIXING}
          ]_vars

\* A run whose mixing has failed is about to be marked ERROR from MIXING
C31_Witness ==
    \E r \in RunRefs :
        /\ Task(r).pc = "L149" /\ StatusOf(r) = MIXING
        /\ Task(r).e[1] \in MixFailures

-----------------------------------------------------------------------------
(* generate_script up to the end of _generate_dialogue, over outlines whose *)
(* chapters carry whatever ids the provider wrote                           *)

MaxChapters == 2            \* chapters of a provider outline

\* A chapter of a provider outline: its "id" is the JSON text the provider
\* wrote (a number, a string that is no number) or is missing
OutlineChapters ==
    {[id |-> "7", title |-> "Topic"], [id |-> "1", title |-> "Topic"],
     [id |-> "x", title |-> "Topic"], [title |-> "Topic"]}

OutlineAnswers ==
    {Json(JsonObject(c)) : c \in SeqsUpTo(OutlineChapters, MaxChapters)}
    \cup {Unparseable, Json(JsonNull), Json(JsonObjectOf("string")),
          Json(JsonObjectOf("empty dict")), Json(JsonObject(<<NotAnObject>>))}

\* line 104 of script_generator.py: _generate_chapters returns
outline_returns ==
    /\ asm.pc = "chapters"
    /\ \E raw \in OutlineAnswers :
         /\ _generate_chapters_error(raw) = None
         /\ asm' = [asm EXCEPT !.pc = "dialogue", !.outline = Some(raw),
                               !.chapters_data = _generate_chapters(raw), !.i = 1]
    /\ UNCHANGED <<pdf_files, _JOB_STORE, tasks, started, reply, settings, ask, _USER_SCORE>>

\* line 104 of script_generator.py: _generate_chapters raises
outline_raises ==
    /\ asm.pc = "chapters"
    /\ \E raw \in OutlineAnswers :
         /\ _generate_chapters_error(raw) # None
         /\ asm' = [asm EXCEPT !.pc = "raised", !.outline = Some(raw),
                               !.e = _generate_chapters_error(raw)]
    /\ UNCHANGED <<pdf_files, _JOB_STORE, tasks, started, reply, settings, ask, _USER_SCORE>>

InitOutline ==
    /\ pdf_files = {}
    /\ _JOB_STORE = <<>>
    /\ tasks = [job_id \in JobIds |-> <<>>]
    /\ started = 0
    /\ reply = NoReply
    /\ settings = [google_api_key |-> TRUE, elevenlabs_api_key |-> FALSE,
                   background_music |-> None]
    /\ asm = [NoAssembly EXCEPT !.pc = "chapters"]
    /\ ask = NoAsk
    /\ _USER_SCORE = <<>>

NextOutline ==
    \/ outline_returns
    \/ outline_raises
    \/ asm_generate_dialogue

SpecOutline == InitOutline /\ [][NextOutline]_vars

\* The chapters of the provider's answer, when it holds a list of them
AnsweredChapters(raw) ==
    IF raw.parses /\ raw.value.type = "object" /\ "chapters" \in DOMAIN raw.value
    THEN raw.value.chapters ELSE <<>>

\* C32: the outline _generate_chapters returns has at least one chapter and
\* its ids are exactly 1, 2, ..., n in list order, whatever ids the provider
\* wrote (none, the same one twice, a later one first, one that is no
\* number); it has one chapter for each chapter of a non-empty answer.
C32_OutlineIds ==
    (asm.pc = "dialogue") =>
        /\ Len(asm.chapters_data) >= 1
        /\ \A i \in 1..Len(asm.chapters_data) :
              "id" \in DOMAIN asm.chapters_data[i] /\ asm.chapters_data[i].id = i
        /\ AnsweredChapters(asm.outline[1]) # <<>>
              => Len(asm.chapters_data) = Len(AnsweredChapters(asm.outline[1]))

\* The provider wrote the id "x" and then no id; the outline returned has
\* two chapters
C32_Witness ==
    /\ asm.pc = "dialogue"
    /\ AnsweredChapters(asm.outline[1]) = <<[id |-> "x", title |-> "Topic"], [title |-> "Topic"]>>
    /\ Len(asm.chapters_data) = 2

-----------------------------------------------------------------------------
\* line 227: the entry is a dict with "host" and "text"
WellFormed(entry) == entry.ok

\* The entries of a dialogue answer: those of the list it parses to, none
\* when it does not parse or parses to something else
AnsweredEntries(raw) ==
    IF raw.parses /\ raw.value.type = "list" THEN raw.value.items ELSE <<>>

\* C33: one pass of the loop of _generate_dialogue appends, after the lines
\* of the earlier chapters, the well-formed entries of the chapter's answer
\* in the order of the answer, each tagged with the id of that chapter; the
\* malformed entries and an answer that is no list add nothing and nothing
\* is raised. Along the dialogue the chapter ids never decrease.
C33_DialogueOrder ==
    /\ [](asm.pc = "dialogue" =>
            \A k \in 1..Len(asm.all_lines) :
               /\ asm.all_lines[k].chapter_id \in 1..(asm.i - 1)
               /\ k > 1 => asm.all_lines[k - 1].chapter_id <= asm.all_lines[k].chapter_id)
    /\ [][ (asm.pc = "dialogue" /\ asm'.i = asm.i + 1) =>
              /\ asm'.pc = "dialogue" /\ asm'.e = None
              /\ \E raw \in DialogueResponses :
                    LET kept == SelectSeq(AnsweredEntries(raw), WellFormed)
                    IN  /\ Len(asm'.all_lines) = Len(asm.all_lines) + Len(kept)
                        /\ SubSeq(asm'.all_lines, 1, Len(asm.all_lines)) = asm.all_lines
                        /\ \A k \in 1..Len(kept) :
                              LET line == asm'.all_lines[Len(asm.all_lines) + k]
                              IN  /\ line.chapter_id = asm.chapters_data[asm.i].id
                                  /\ line.text = kept[k].text
                                  /\ line.host = Upper(kept[k].host)
          ]_vars

\* Two chapters have each been answered with three entries of which the
\* second is malformed: four lines, two of each chapter
C33_Witness ==
    /\ asm.pc = "dialogue" /\ asm.i = 3
    /\ Len(asm.all_lines) = 4
    /\ asm.all_lines[1].text = 4 /\ asm.all_lines[2].chapter_id = 1
    /\ asm.all_lines[3].text = 4 /\ asm.all_lines[3].chapter_id = 2

-----------------------------------------------------------------------------
\* C34: synthesise_script returns exactly one SynthesisedLine for each
\* DialogueLine of the script, in the same order: the synthesised line at
\* index i is made from the dialogue line at index i.
C34_OnePerLine ==
    (asm.pc = "synthesised") =>
        /\ Len(asm.synthesised) = Len(asm.all_lines)
        /\ \A i \in 1..Len(asm.synthesised) :
              /\ asm.synthesised[i].text = asm.all_lines[i].text
              /\ asm.synthesised[i].chapter_id = asm.all_lines[i].chapter_id

-----------------------------------------------------------------------------
\* C35: every DialogueLine of the generated script, every SynthesisedLine
\* and every caption cue made from it has a speaker role that is exactly
\* "A" or "B", whatever role the provider wrote.
C35_RolesAB ==
    /\ \A i \in 1..Len(asm.all_lines) : asm.all_lines[i].host \in {"A", "B"}
    /\ \A i \in 1..Len(asm.synthesised) : asm.synthesised[i].host \in {"A", "B"}
    /\ \A i \in 1..Len(asm.cues) : asm.cues[i].host \in {"A", "B"}

-----------------------------------------------------------------------------
\* C36: no status poll observes a result on a job whose status is not DONE.
\* Whenever the event loop can serve a request, every entry of the store has
\* a result exactly when its status is DONE; the reply of get_status shows
\* the same; the entry made by a start, a restart from ERROR included, is
\* PENDING with neither result nor script.
C36_ResultOnlyWhenDone ==
    /\ [](LoopFree =>
            \A j \in Jobs : (_JOB_STORE[j].result # None) <=> (_JOB_STORE[j].status = DONE))
    /\ []((reply.op = "get_status" /\ reply.code = 200) =>
            ((reply.body[1].result # None) <=> (reply.body[1].status = DONE)))
    /\ [][ \A j \in JobIds :
              Len(tasks'[j]) > Len(tasks[j])
                 => /\ _JOB_STORE'[j].status = PENDING
                    /\ _JOB_STORE'[j].result = None
                    /\ _JOB_STORE'[j].script = None
          ]_vars

\* Between lines 144 and 146 the entry holds the result while its status is
\* still MIXING; the run has not yielded, so no request is served
C36_Witness ==
    \E r \in RunRefs :
        /\ Task(r).pc = "L146"
        /\ _JOB_STORE[Task(r).job_id].result # None
        /\ _JOB_STORE[Task(r).job_id].status = MIXING
        /\ ~LoopFree

-----------------------------------------------------------------------------
\* S_i: the sum over the lines before line i of their duration and the pause
LineStart(synthesised, i) == SpeechTimeline(SubSeq(synthesised, 1, i - 1))

\* C37: on the speech timeline the cue of line i covers exactly
\* [S_i, S_i + d_i], S_i being the sum of d_j + 600 ms over the lines j < i;
\* the pause of 600 ms follows every line, the last included, and lies in no
\* cue; the final audio is 4000 ms + the sum of d_i + 600 ms long and every
\* cue shifted by the intro lies inside it.
C37_CueWindows ==
    asm.pc = "mixed" =>
        /\ Len(asm.cues) = Len(asm.synthesised)
        /\ \A i \in 1..Len(asm.cues) :
              /\ asm.cues[i].start_sec = LineStart(asm.synthesised, i)
              /\ asm.cues[i].end_sec = LineStart(asm.synthesised, i) + asm.synthesised[i].duration_ms
              /\ i < Len(asm.cues) => asm.cues[i + 1].start_sec = asm.cues[i].end_sec + 600
              /\ 4000 <= asm.cues[i].start_sec + 4000
              /\ asm.cues[i].end_sec + 4000 + 600 <= asm.final_audio
        /\ asm.final_audio = 4000 + SpeechTimeline(asm.synthesised)
        /\ asm.synthesised # <<>> =>
              asm.final_audio = asm.cues[Len(asm.cues)].end_sec + 600 + 4000

\* A mix of three lines of different lengths
C37_Witness ==
    /\ asm.pc = "mixed"
    /\ Len(asm.cues) = 3
    /\ asm.synthesised[1].duration_ms # asm.synthesised[2].duration_ms
    /\ asm.cues[3].start_sec = asm.synthesised[1].duration_ms + asm.synthesised[2].duration_ms + 1200

-----------------------------------------------------------------------------
(* _load_music (audio_mixer.py lines 80-91), statement by statement, called *)
(* by mix_podcast for the synthesised lines of a script; asm.music is       *)
(* len(music)                                                               *)

\* background_music.mp3: absent, or decoding to audio of this length in ms
LoadedAssets == {None, Some(0), Some(1), Some(700), Some(3000), Some(12000), Some(60000)}

\* The synthesised lines handed to mix_podcast: none, one, two
MixedLines ==
    { <<>>,
      <<SynthesisedLine("A", 3, 1003, 1, TRUE)>>,
      <<SynthesisedLine("A", 3, 1003, 1, TRUE), SynthesisedLine("B", 7, 1053, 1, TRUE)>> }

MusicFrame == UNCHANGED <<pdf_files, _JOB_STORE, tasks, started, reply, settings, ask, _USER_SCORE>>

\* lines 82, 84-86: no asset, silence of the length asked for is returned
load_music_silence ==
    /\ asm.pc = "load_music"
    /\ settings.background_music = None
    /\ asm' = [asm EXCEPT !.pc = "music loaded", !.music = MusicDuration(asm.synthesised)]
    /\ MusicFrame

\* lines 82-83: the asset is read
load_music_from_file ==
    /\ asm.pc = "load_music"
    /\ settings.background_music # None
    /\ asm' = [asm EXCEPT !.pc = "loop", !.music = settings.background_music[1]]
    /\ MusicFrame

\* lines 89-90: one pass of the loop; with len(music) = 0 the pass changes
\* nothing and the loop goes on
load_music_doubles ==
    /\ asm.pc = "loop"
    /\ asm.music < MusicDuration(asm.synthesised)
    /\ asm' = [asm EXCEPT !.music = @ + @]
    /\ MusicFrame

\* line 91: music[:duration_ms]
load_music_returns ==
    /\ asm.pc = "loop"
    /\ ~(asm.music < MusicDuration(asm.synthesised))
    /\ asm' = [asm EXCEPT !.pc = "music loaded",
                          !.music = Min(@, MusicDuration(asm.synthesised))]
    /\ MusicFrame

InitMusic ==
    /\ pdf_files = {}
    /\ _JOB_STORE = <<>>
    /\ tasks = [job_id \in JobIds |-> <<>>]
    /\ started = 0
    /\ reply = NoReply
    /\ settings \in [google_api_key : {TRUE}, elevenlabs_api_key : {FALSE},
                    background_music : LoadedAssets]
    /\ \E synthesised \in MixedLines :
          asm = [NoAssembly EXCEPT !.pc = "load_music", !.synthesised = synthesised]
    /\ ask = NoAsk
    /\ _USER_SCORE = <<>>

NextMusic ==
    \/ load_music_silence
    \/ load_music_from_file
    \/ load_music_doubles
    \/ load_music_returns

\* mix_podcast is one synchronous call: its statements follow one another
SpecMusic == InitMusic /\ [][NextMusic]_vars /\ WF_vars(NextMusic)

\* C38: _load_music terminates for every background asset, an asset of
\* length 0 included, and returns audio of exactly the length asked for, the
\* length of the speech timeline + 10000 ms.
C38_LoadMusicReturns ==
    /\ <>(asm.pc = "music loaded")
    /\ [](asm.pc = "music loaded" => asm.music = SpeechTimeline(asm.synthesised) + 10000)

-----------------------------------------------------------------------------
\* C39: in the retry loop of _ask a wait happens only between two attempts:
\* every wait of the log is followed by another request, or is the last
\* entry while a permitted attempt is still to come; so after the last
\* permitted attempt the failure is raised with no wait before it.
C39_WaitsBetweenAttempts ==
    \A i \in 1..Len(ask.log) :
        ask.log[i].op = "sleep" =>
            /\ i < Len(ask.log) => ask.log[i + 1].op = "generate_content"
            /\ i = Len(ask.log) => ask.pc = "try" /\ ask.attempt < retries

====
